---- MODULE Spec2Model ----
(***************************************************************************)
(* Model of the collection runner of the GETapi backend:                   *)
(*   replaceVariables, executeRequest and runCollection (the runner        *)
(*   service) together with the JavaScript string and JSON conversions     *)
(*   they rest on.                                                         *)
(* Texts are sequences of one-character strings, so that the regular       *)
(* expression scan, the string coercion of values and JSON.stringify /     *)
(* JSON.parse are computed character by character as the runtime does.     *)
(***************************************************************************)
EXTENDS Integers, Sequences, FiniteSets, TLC

(***************************************************************************)
(* Bounds of the model.                                                    *)
(***************************************************************************)
\* longest text enumerated for replaceVariables
MaxLen == 6
\* most request templates in one run
MaxRequests == 2
\* the clock stops advancing here
MaxTime == 2

(***************************************************************************)
(* Characters and fixed texts.                                             *)
(***************************************************************************)
\* the characters the regular expression class \w matches
WordChars ==
  {"a", "b", "c", "d", "e", "f", "g", "h", "i", "j", "k", "l", "m", "n", "o",
   "p", "q", "r", "s", "t", "u", "v", "w", "x", "y", "z", "A", "B", "C", "D",
   "E", "F", "G", "H", "I", "J", "K", "L", "M", "N", "O", "P", "Q", "R", "S",
   "T", "U", "V", "W", "X", "Y", "Z", "0", "1", "2", "3", "4", "5", "6", "7",
   "8", "9", "_"}

Digits == <<"0", "1", "2", "3", "4", "5", "6", "7", "8", "9">>

TxtTrue == <<"t", "r", "u", "e">>
TxtFalse == <<"f", "a", "l", "s", "e">>
TxtNull == <<"n", "u", "l", "l">>
TxtUndefined == <<"u", "n", "d", "e", "f", "i", "n", "e", "d">>
TxtObject == <<"[", "o", "b", "j", "e", "c", "t", " ", "O", "b", "j", "e", "c", "t", "]">>
TxtFunctionHead == <<"f", "u", "n", "c", "t", "i", "o", "n", " ">>
TxtFunctionTail ==
  <<"(", ")", " ", "{", " ", "[", "n", "a", "t", "i", "v", "e", " ", "c", "o",
    "d", "e", "]", " ", "}">>

NameA == <<"a">>
NameB == <<"b">>
NameConstructor == <<"c", "o", "n", "s", "t", "r", "u", "c", "t", "o", "r">>
NameToString == <<"t", "o", "S", "t", "r", "i", "n", "g">>
NameValueOf == <<"v", "a", "l", "u", "e", "O", "f">>
NameHasOwnProperty == <<"h", "a", "s", "O", "w", "n", "P", "r", "o", "p", "e", "r", "t", "y">>
NameProto == <<"_", "_", "p", "r", "o", "t", "o", "_", "_">>

Open == <<"{", "{">>
Close == <<"}", "}">>

\* the text {{name}}
Placeholder(name) == Open \o name \o Close

(***************************************************************************)
(* JavaScript values: what a variable bag (a JSON object) can hold, plus   *)
(* undefined and the built-in functions a property read can return.        *)
(* Every value is a record of the same shape; t is the tag.                *)
(*   keys: for an object, the names of its own properties                  *)
(*   items: for an array, its elements (numbers)                           *)
(***************************************************************************)
Val(t, s, n, b, keys, items) ==
  [t |-> t, s |-> s, n |-> n, b |-> b, keys |-> keys, items |-> items]

StrV(s) == Val("string", s, 0, FALSE, {}, <<>>)
NumV(n) == Val("number", <<>>, n, FALSE, {}, <<>>)
BoolV(b) == Val("boolean", <<>>, 0, b, {}, <<>>)
NullV == Val("null", <<>>, 0, FALSE, {}, <<>>)
UndefinedV == Val("undefined", <<>>, 0, FALSE, {}, <<>>)
ObjV(keys) == Val("object", <<>>, 0, FALSE, keys, <<>>)
ArrV(items) == Val("array", <<>>, 0, FALSE, {}, items)
\* a built-in function object; s is its name
FunV(name) == Val("function", name, 0, FALSE, {}, <<>>)

\* decimal digits of a natural number (Number::toString)
RECURSIVE NumText(_)
NumText(n) ==
  IF n < 10 THEN <<Digits[n + 1]>>
  ELSE NumText(n \div 10) \o <<Digits[(n % 10) + 1]>>

\* Array.prototype.join(",") over numbers
RECURSIVE JoinItems(_)
JoinItems(items) ==
  IF items = <<>> THEN <<>>
  ELSE IF Len(items) = 1 THEN NumText(items[1])
  ELSE NumText(items[1]) \o <<",">> \o JoinItems(Tail(items))

\* ToBoolean
Truthy(v) ==
  CASE v.t = "string" -> v.s # <<>>
    [] v.t = "number" -> v.n # 0
    [] v.t = "boolean" -> v.b
    [] v.t = "null" -> FALSE
    [] v.t = "undefined" -> FALSE
    [] OTHER -> TRUE

\* ToString throws a TypeError: OrdinaryToPrimitive finds no callable
\* toString (an own data property from JSON shadows Object.prototype's) and
\* valueOf gives back the object itself.
ToStringThrows(v) == v.t = "object" /\ NameToString \in v.keys

\* ToString of a value that has a string representation
ToStringOf(v) ==
  CASE v.t = "string" -> v.s
    [] v.t = "number" -> NumText(v.n)
    [] v.t = "boolean" -> (IF v.b THEN TxtTrue ELSE TxtFalse)
    [] v.t = "null" -> TxtNull
    [] v.t = "undefined" -> TxtUndefined
    [] v.t = "object" -> TxtObject
    [] v.t = "array" -> JoinItems(v.items)
    [] OTHER -> TxtFunctionHead \o v.s \o TxtFunctionTail

(***************************************************************************)
(* Variable bags.  A bag is a plain object: a function from its own keys   *)
(* to values.  A property read falls back to Object.prototype.             *)
(***************************************************************************)
ObjectPrototypeFunctions ==
  {NameConstructor, NameToString, NameValueOf, NameHasOwnProperty}

\* variables[variableName]
GetProperty(variables, variableName) ==
  IF variableName \in DOMAIN variables THEN variables[variableName]
  ELSE IF variableName = NameConstructor THEN FunV(<<"O", "b", "j", "e", "c", "t">>)
  ELSE IF variableName \in ObjectPrototypeFunctions THEN FunV(variableName)
  ELSE IF variableName = NameProto THEN ObjV({})
  ELSE UndefinedV

(***************************************************************************)
(* replaceVariables: str.replace(/\{\{(\w+)\}\}/g, callback)               *)
(***************************************************************************)
\* outcome of a call that may throw
Returned(val) == [threw |-> FALSE, val |-> val, msg |-> ""]
Threw(msg) == [threw |-> TRUE, val |-> <<>>, msg |-> msg]

TypeErrorMessage == "Cannot convert object to primitive value"

\* index of the last character of the longest run of \w starting at i
\* (i - 1 when str[i] is no word character)
RECURSIVE WordEnd(_, _)
WordEnd(str, i) ==
  IF i <= Len(str) /\ str[i] \in WordChars THEN WordEnd(str, i + 1) ELSE i - 1

\* the regular expression \{\{(\w+)\}\} matched at position i: the index of
\* the match's last character, or 0 when it does not match there
MatchAt(str, i) ==
  IF i + 1 <= Len(str) /\ str[i] = "{" /\ str[i + 1] = "{"
  THEN LET e == WordEnd(str, i + 2)
       IN IF e >= i + 2 /\ e + 2 <= Len(str) /\ str[e + 1] = "}" /\ str[e + 2] = "}"
          THEN e + 2
          ELSE 0
  ELSE 0

\* a value that is itself the placeholder of a name is looked up once more
ReplaceCallbackDereferenced(variables, match, variableName) ==
  LET v == GetProperty(variables, variableName)
      inner == IF v.t = "string" /\ v.s # <<>> /\ MatchAt(v.s, 1) = Len(v.s)
               THEN GetProperty(variables, SubSeq(v.s, 3, Len(v.s) - 2))
               ELSE UndefinedV
  IN IF Truthy(inner) THEN inner ELSE IF Truthy(v) THEN v ELSE StrV(match)

\* the callback: variables[variableName] || match
ReplaceCallback(variables, match, variableName) ==
  LET v == GetProperty(variables, variableName)
  IN IF Truthy(v) THEN v ELSE StrV(match)

\* text followed by the rest of the scan, unless the rest threw
Prepend(text, rest) == IF rest.threw THEN rest ELSE Returned(text \o rest.val)

\* the replacement text is ToString of the callback's value v
Substitute(v, rest) ==
  IF ToStringThrows(v) THEN Threw(TypeErrorMessage) ELSE Prepend(ToStringOf(v), rest)

\* The global replace from position i on: an unmatched character is copied,
\* a match is replaced by the callback's value, and the scan resumes after
\* the match (inserted text is not scanned).  ReplaceAt is the step at
\* position i, where the match ends at e (0: no match).
RECURSIVE ReplaceFrom(_, _, _)
RECURSIVE ReplaceAt(_, _, _, _)
ReplaceAt(str, variables, i, e) ==
  IF e = 0
  THEN Prepend(<<str[i]>>, ReplaceFrom(str, variables, i + 1))
  ELSE Substitute(ReplaceCallback(variables, SubSeq(str, i, e), SubSeq(str, i + 2, e - 2)),
                  ReplaceFrom(str, variables, e + 1))

ReplaceFrom(str, variables, i) ==
  IF i > Len(str) THEN Returned(<<>>)
  ELSE ReplaceAt(str, variables, i, MatchAt(str, i))

replaceVariables(str, variables) ==
  IF str = <<>> THEN Returned(str) ELSE ReplaceFrom(str, variables, 1)

(***************************************************************************)
(* JSON.stringify and JSON.parse on the structured parts of a template.    *)
(* A structured part (headers, body, params) is absent (null) or an object *)
(* whose entries map a text key to a text leaf.                            *)
(***************************************************************************)
Absent == [present |-> FALSE, entries |-> <<>>]
JsonObject(entries) == [present |-> TRUE, entries |-> entries]
Entry(k, v) == [k |-> k, v |-> v]

\* JSON.stringify of a string: quotes and backslashes are escaped
RECURSIVE QuoteChars(_)
QuoteChars(s) ==
  IF s = <<>> THEN <<>>
  ELSE (IF Head(s) = "\"" \/ Head(s) = "\\" THEN <<"\\", Head(s)>> ELSE <<Head(s)>>)
       \o QuoteChars(Tail(s))

StringifyString(s) == <<"\"">> \o QuoteChars(s) \o <<"\"">>

RECURSIVE StringifyEntries(_)
StringifyEntries(entries) ==
  IF entries = <<>> THEN <<>>
  ELSE StringifyString(entries[1].k) \o <<":">> \o StringifyString(entries[1].v)
       \o (IF Len(entries) > 1 THEN <<",">> ELSE <<>>)
       \o StringifyEntries(Tail(entries))

\* JSON.stringify(value) for a present structured part
JSONStringify(json) == <<"{">> \o StringifyEntries(json.entries) \o <<"}">>

\* The JSON grammar, as a recogniser.  Each Parse operator takes the index
\* of the first character and gives the index after the parsed text, or 0
\* when the text at that index is not of that form.
DigitChars == {"0", "1", "2", "3", "4", "5", "6", "7", "8", "9"}
HexChars == DigitChars \cup {"a", "b", "c", "d", "e", "f", "A", "B", "C", "D", "E", "F"}
EscapeChars == {"\"", "\\", "/", "b", "f", "n", "r", "t"}

RECURSIVE SkipWs(_, _)
SkipWs(s, i) == IF i <= Len(s) /\ s[i] = " " THEN SkipWs(s, i + 1) ELSE i

RECURSIVE SkipDigits(_, _)
SkipDigits(s, i) == IF i <= Len(s) /\ s[i] \in DigitChars THEN SkipDigits(s, i + 1) ELSE i

\* characters of a string after its opening quote
RECURSIVE ParseStringBody(_, _)
ParseStringBody(s, i) ==
  IF i > Len(s) THEN 0
  ELSE IF s[i] = "\"" THEN i + 1
  ELSE IF s[i] = "\\"
       THEN IF i + 1 > Len(s) THEN 0
            ELSE IF s[i + 1] \in EscapeChars THEN ParseStringBody(s, i + 2)
            ELSE IF s[i + 1] = "u" /\ i + 5 <= Len(s)
                    /\ \A k \in (i + 2)..(i + 5) : s[k] \in HexChars
                 THEN ParseStringBody(s, i + 6)
            ELSE 0
  ELSE ParseStringBody(s, i + 1)

ParseString(s, i) ==
  IF i <= Len(s) /\ s[i] = "\"" THEN ParseStringBody(s, i + 1) ELSE 0

\* at least one digit at index i: the index after the digits, or 0
SomeDigits(s, i) ==
  IF i <= Len(s) /\ s[i] \in DigitChars THEN SkipDigits(s, i + 1) ELSE 0

\* ([eE] [+-]? [0-9]+)? at index i (0: the part before it failed)
ParseExponent(s, i) ==
  IF i = 0 THEN 0
  ELSE IF i <= Len(s) /\ s[i] \in {"e", "E"}
       THEN SomeDigits(s, IF i + 1 <= Len(s) /\ s[i + 1] \in {"+", "-"}
                          THEN i + 2 ELSE i + 1)
  ELSE i

\* (. [0-9]+)? at index i (0: the part before it failed)
ParseFraction(s, i) ==
  IF i = 0 THEN 0
  ELSE IF i <= Len(s) /\ s[i] = "." THEN SomeDigits(s, i + 1)
  ELSE i

\* 0 | [1-9][0-9]*
ParseInteger(s, i) ==
  IF i > Len(s) \/ s[i] \notin DigitChars THEN 0
  ELSE IF s[i] = "0" THEN i + 1
  ELSE SkipDigits(s, i)

\* -? (0 | [1-9][0-9]*) (. [0-9]+)? ([eE] [+-]? [0-9]+)?
ParseNumber(s, i) ==
  ParseExponent(s, ParseFraction(s, ParseInteger(s,
    IF i <= Len(s) /\ s[i] = "-" THEN i + 1 ELSE i)))

ParseLiteral(s, i, lit) ==
  IF i + Len(lit) - 1 <= Len(s) /\ SubSeq(s, i, i + Len(lit) - 1) = lit
  THEN i + Len(lit) ELSE 0

\* a string, a number or one of true, false, null at index i
ParseScalar(s, i) ==
  IF s[i] = "\"" THEN ParseString(s, i)
  ELSE IF s[i] = "t" THEN ParseLiteral(s, i, TxtTrue)
  ELSE IF s[i] = "f" THEN ParseLiteral(s, i, TxtFalse)
  ELSE IF s[i] = "n" THEN ParseLiteral(s, i, TxtNull)
  ELSE ParseNumber(s, i)

\* the index after the colon that follows a key ending before index e
\* (0: no key, or no colon)
AfterColon(s, e) ==
  IF e = 0 THEN 0
  ELSE IF SkipWs(s, e) <= Len(s) /\ s[SkipWs(s, e)] = ":" THEN SkipWs(s, e) + 1
  ELSE 0

\* The rest of the text from index i on (white space skipped), given the
\* stack of the objects ("{") and arrays ("[") still open and what is
\* expected next: a "value", an object's "key" with its colon, or what comes
\* "after" a value (a comma, the closing bracket, or the end of the text
\* when nothing is open).
RECURSIVE ParseRest(_, _, _, _)
RECURSIVE ParseOpen(_, _, _, _)
RECURSIVE ParseNext(_, _, _, _)

\* after the bracket s[i] of an object or array, j is the next index
ParseOpen(s, i, j, stack) ==
  IF j <= Len(s) /\ s[j] = (IF s[i] = "{" THEN "}" ELSE "]")
  THEN ParseRest(s, SkipWs(s, j + 1), stack, "after")
  ELSE ParseNext(s, j, <<s[i]>> \o stack, IF s[i] = "{" THEN "key" ELSE "value")

\* e is the index after a scalar or after a key's colon (0: there was none)
ParseNext(s, e, stack, expect) ==
  e # 0 /\ ParseRest(s, SkipWs(s, e), stack, expect)

ParseRest(s, i, stack, expect) ==
  IF expect = "after" /\ stack = <<>> THEN i = Len(s) + 1
  ELSE IF i > Len(s) THEN FALSE
  ELSE IF expect = "value"
       THEN IF s[i] \in {"{", "["}
            THEN ParseOpen(s, i, SkipWs(s, i + 1), stack)
            ELSE ParseNext(s, ParseScalar(s, i), stack, "after")
  ELSE IF expect = "key"
       THEN ParseNext(s, AfterColon(s, ParseString(s, i)), stack, "value")
  ELSE IF s[i] = ","
       THEN ParseNext(s, i + 1, stack, IF Head(stack) = "{" THEN "key" ELSE "value")
  ELSE IF s[i] = (IF Head(stack) = "{" THEN "}" ELSE "]")
       THEN ParseNext(s, i + 1, Tail(stack), "after")
  ELSE FALSE

\* JSON.parse(text) returns (TRUE) or throws a SyntaxError (FALSE)
JSONValid(text) == ParseRest(text, SkipWs(text, 1), <<>>, "value")

SyntaxErrorMessage == "Unexpected token in JSON"

\* the substituted text is used without being parsed
JSONParseUnchecked(r) == r

\* JSON.parse of the text r returned by replaceVariables (an exception of
\* replaceVariables passes through).  The parsed value is carried as its
\* JSON text.
JSONParse(r) ==
  IF r.threw THEN r
  ELSE IF JSONValid(r.val) THEN r
  ELSE Threw(SyntaxErrorMessage)

\* part ? JSON.parse(replaceVariables(JSON.stringify(part), variables)) : undefined
InterpolateJson(json, variables) ==
  IF ~json.present THEN Returned(<<>>)
  ELSE JSONParse(replaceVariables(JSONStringify(json), variables))

(***************************************************************************)
(* State.                                                                  *)
(*   requests, options   the arguments of runCollection                    *)
(*   pc                  where runCollection is suspended                  *)
(*   idx                 the sequential loop's current request             *)
(*   results, runStartTime   runCollection's locals                        *)
(*   exec                the executeRequest invocation of each request     *)
(*   timerDue            when the pending setTimeout fires                 *)
(*   timerLog            the setTimeout calls: the request each followed   *)
(*   output              what runCollection returned                        *)
(*   httpLog             the HTTP calls handed to axios, in order          *)
(*   callLog             the calls of executeRequest, in order             *)
(*   now                 Date.now()                                        *)
(*   argStr, argVars, callState, retVal   one call of replaceVariables     *)
(*   invocation          the calls of runScript: arguments, position,      *)
(*                       isolate and settlement                            *)
(*   heap                the host's variable bags, by object identity      *)
(*   isolates            the isolates created, in order of creation        *)
(***************************************************************************)
VARIABLES requests, options, pc, idx, results, runStartTime, exec, timerDue,
          timerLog, output, httpLog, callLog, now, argStr, argVars, callState,
          retVal, invocation, heap, isolates, db, pool, handlers

runVars == <<requests, options, pc, idx, results, runStartTime, exec, timerDue,
             timerLog, output, httpLog, callLog, now>>
callVars == <<argStr, argVars, callState, retVal>>
scriptVars == <<invocation, heap, isolates>>
serverVars == <<db, pool, handlers>>
vars == <<requests, options, pc, idx, results, runStartTime, exec, timerDue,
          timerLog, output, httpLog, callLog, now, argStr, argVars, callState,
          retVal, invocation, heap, isolates, db, pool, handlers>>

\* no database, no pooled connection and no HTTP request
NoServer ==
  /\ db = <<>>
  /\ pool = <<>>
  /\ handlers = <<>>

(***************************************************************************)
(* executeRequest                                                          *)
(***************************************************************************)
NoResponse == [status |-> 0, statusText |-> "", data |-> "", headers |-> ""]

\* the result object as created: status, response, error and duration unset
PartialResult(request, url, t) ==
  [requestId |-> request.id, name |-> request.name, method |-> request.method,
   url |-> url, timestamp |-> t, status |-> "unset",
   hasResponse |-> FALSE, response |-> NoResponse,
   hasError |-> FALSE, error |-> "", duration |-> 0]

NoResult ==
  [requestId |-> 0, name |-> "", method |-> "", url |-> <<>>, timestamp |-> 0,
   status |-> "unset", hasResponse |-> FALSE, response |-> NoResponse,
   hasError |-> FALSE, error |-> "", duration |-> 0]

NoConfig == [url |-> <<>>, headers |-> <<>>, data |-> <<>>, params |-> <<>>]

\* what the awaited axios call settled with (kind "none": not settled)
NoOutcome == [kind |-> "none", response |-> NoResponse, message |-> ""]

Idle == [state |-> "idle", startTime |-> 0, result |-> NoResult, reason |-> "",
         config |-> NoConfig, outcome |-> NoOutcome]

\* the try block's success path: the response snapshot
Completed(result, response, t, startTime) ==
  [result EXCEPT !.status = "completed", !.hasResponse = TRUE,
                 !.response = [status |-> response.status,
                               statusText |-> response.statusText,
                               data |-> response.data,
                               headers |-> response.headers],
                 !.duration = t - startTime]

\* the catch block leaves the error unset
FailedWithoutError(result, message, t, startTime) ==
  [result EXCEPT !.status = "failed", !.duration = t - startTime]

\* the catch block
Failed(result, message, t, startTime) ==
  [result EXCEPT !.status = "failed", !.hasError = TRUE, !.error = message,
                 !.duration = t - startTime]

\* the try block up to the await: headers, body and params have been
\* interpolated to h, d and p, in that order; the first exception among them
\* goes to the catch block, otherwise axios is called with the config
ExecuteRequestTry(result, t, h, d, p) ==
  IF h.threw \/ d.threw \/ p.threw
  THEN [Idle EXCEPT !.state = "fulfilled", !.startTime = t,
                    !.result = Failed(result,
                                      IF h.threw THEN h.msg
                                      ELSE IF d.threw THEN d.msg ELSE p.msg,
                                      t, t)]
  ELSE [Idle EXCEPT !.state = "inflight", !.startTime = t, !.result = result,
                    !.config = [url |-> result.url, headers |-> h.val,
                                data |-> d.val, params |-> p.val]]

\* the result object is built with the URL interpolated to u, before the
\* try block: an exception there leaves the function
ExecuteRequestBuild(request, variables, t, u) ==
  IF u.threw
  THEN [Idle EXCEPT !.state = "rejected", !.startTime = t, !.reason = u.msg]
  ELSE ExecuteRequestTry(PartialResult(request, u.val, t), t,
                         InterpolateJson(request.headers, variables),
                         InterpolateJson(request.body, variables),
                         InterpolateJson(request.params, variables))

\* executeRequest from its call to its first suspension, at time t.
\* Gives the invocation's state: rejected (the exception left the function),
\* fulfilled (the catch block made a failed result) or inflight (axios was
\* called with config and the function awaits it).
ExecuteRequestCall(request, variables, t) ==
  ExecuteRequestBuild(request, variables, t, replaceVariables(request.url, variables))

\* what axios(config) can settle with: validateStatus accepts every status
\* code, so every response resolves; only a transport failure rejects
StatusCodes == {200, 404, 500}
StatusText(c) == IF c = 200 THEN "OK" ELSE IF c = 404 THEN "Not Found"
                 ELSE "Internal Server Error"
HttpOutcomes ==
  {[kind |-> "response",
    response |-> [status |-> c, statusText |-> StatusText(c),
                  data |-> "response body", headers |-> "response headers"],
    message |-> ""] : c \in StatusCodes}
  \cup {[kind |-> "error", response |-> NoResponse, message |-> "Network Error"]}

\* axios' default validateStatus: a status outside 2xx rejects
ExecuteRequestResumeDefaultValidate(e, o, t) ==
  [e EXCEPT !.state = "fulfilled",
            !.outcome = o,
            !.result = IF o.kind = "response" /\ o.response.status < 300
                       THEN Completed(e.result, o.response, t, e.startTime)
                       ELSE IF o.kind = "response"
                       THEN Failed(e.result, "Request failed with status code", t, e.startTime)
                       ELSE Failed(e.result, o.message, t, e.startTime)]

\* executeRequest resumed when axios settles with outcome o at time t
ExecuteRequestResume(e, o, t) ==
  [e EXCEPT !.state = "fulfilled",
            !.outcome = o,
            !.result = IF o.kind = "response"
                       THEN Completed(e.result, o.response, t, e.startTime)
                       ELSE Failed(e.result, o.message, t, e.startTime)]

(***************************************************************************)
(* runCollection                                                           *)
(***************************************************************************)
CountStatus(res, status) == Cardinality({i \in DOMAIN res : res[i].status = status})

\* completed is not filtered by status
RunSummaryUnfiltered(reqs, res, totalDuration) ==
  [total |-> Len(reqs),
   completed |-> Len(res),
   failed |-> CountStatus(res, "failed"),
   totalDuration |-> totalDuration]

RunSummary(reqs, res, totalDuration) ==
  [total |-> Len(reqs),
   completed |-> CountStatus(res, "completed"),
   failed |-> CountStatus(res, "failed"),
   totalDuration |-> totalDuration]

\* failed only when nothing completed
RunStatusNoneCompleted(summary) == IF summary.completed = 0 THEN "failed" ELSE "completed"

RunStatus(summary) == IF summary.failed > 0 THEN "failed" ELSE "completed"

\* the returned object
RunOutput(reqs, res, totalDuration) ==
  LET summary == RunSummary(reqs, res, totalDuration)
  IN [runId |-> "uuid", status |-> RunStatus(summary), results |-> res,
      summary |-> summary]

NoOutput == [runId |-> "", status |-> "running", results |-> <<>>,
             summary |-> [total |-> 0, completed |-> 0, failed |-> 0,
                          totalDuration |-> 0]]

\* no pause after the last request
DelayRequestedBetween == options.delayBetweenRequests # 0 /\ idx < Len(requests)

\* if (options.delayBetweenRequests)
DelayRequested == options.delayBetweenRequests # 0

\* the log entry of an invocation that reached axios
Logged(i, e) == IF e.state = "inflight" THEN <<[request |-> i, config |-> e.config]>> ELSE <<>>

\* the log entries of the invocations called[i], called[i+1], ...
RECURSIVE LogAll(_, _)
LogAll(called, i) ==
  IF i > Len(called) THEN <<>> ELSE Logged(i, called[i]) \o LogAll(called, i + 1)

\* the sum of the results' durations
RECURSIVE SumDurations(_)
SumDurations(res) ==
  IF res = <<>> THEN 0 ELSE Head(res).duration + SumDurations(Tail(res))

\* totalDuration is the sum of the results' durations
TotalDurationOfResults(res, start, t) == SumDurations(res)

\* const totalDuration = Date.now() - runStartTime, read at time t
TotalDuration(res, start, t) == t - start

\* the bag is refreshed from the results recorded so far
CurrentBagThreaded(res) ==
  IF res = <<>> THEN options.variables
  ELSE (NameA :> StrV(<<"y">>)) @@ options.variables

\* the bag handed to executeRequest when res are the results recorded so
\* far: always options.variables
CurrentBag(res) == options.variables

\* runCollection takes the loop unless the mode is 'parallel'
IsSequentialUnlessParallel(executionMode) == executionMode # "parallel"

\* if (options.executionMode === 'sequential')
IsSequential(executionMode) == executionMode = "sequential"

\* the resolved URL is written back into the template
InputsResolvedInPlace ==
  /\ options' = options
  /\ requests' = [i \in DOMAIN requests |->
                    IF exec'[i].state \in {"inflight", "fulfilled"}
                    THEN [requests[i] EXCEPT !.url = exec'[i].result.url]
                    ELSE requests[i]]

\* neither executeRequest nor runCollection assigns to a template or to the
\* bag: replaceVariables returns a new string, JSON.parse a new value
InputsUntouched == UNCHANGED <<requests, options>>

\* return { runId, status, results, summary } with results res
Return(res, start) ==
  /\ pc' = "returned"
  /\ results' = res
  /\ output' = RunOutput(requests, res, TotalDuration(res, start, now))
  /\ UNCHANGED <<idx, exec, timerDue, timerLog, httpLog, callLog>>

\* executeRequest was called for request i and gave invocation e: await it
SeqAwait(i, res, e) ==
  /\ pc' = "seq_await"
  /\ idx' = i
  /\ results' = res
  /\ exec' = [exec EXCEPT ![i] = e]
  /\ httpLog' = httpLog \o Logged(i, e)
  /\ callLog' = Append(callLog, i)
  /\ UNCHANGED <<timerDue, timerLog, output>>

\* the sequential loop entered at request i with results res: the next
\* executeRequest is called and awaited, or the loop is over and the
\* function returns
SeqIterate(i, res, start) ==
  IF i > Len(requests)
  THEN Return(res, start)
  ELSE SeqAwait(i, res, ExecuteRequestCall(requests[i], CurrentBag(res), now))

\* every invocation of the map has run to its first suspension
ParAwait(called) ==
  /\ pc' = "par_await"
  /\ exec' = called
  /\ httpLog' = httpLog \o LogAll(called, 1)
  /\ callLog' = callLog \o [i \in DOMAIN called |-> i]
  /\ UNCHANGED <<idx, results, timerDue, timerLog, output>>

\* requests.map(request => executeRequest(...)): every invocation runs to
\* its first suspension, in order; then Promise.all is awaited
ParDispatch ==
  ParAwait([i \in DOMAIN requests |->
              ExecuteRequestCall(requests[i], CurrentBag(results), now)])

\* runCollection is called: it runs to its first suspension
StartRun ==
  /\ pc = "called"
  /\ runStartTime' = now
  /\ IF IsSequential(options.executionMode)
     THEN SeqIterate(1, results, now)
     ELSE ParDispatch
  /\ InputsUntouched
  /\ UNCHANGED now
  /\ UNCHANGED callVars
  /\ UNCHANGED serverVars
  /\ UNCHANGED scriptVars

\* axios settles the call of request i
HttpSettle(i) ==
  /\ exec[i].state = "inflight"
  /\ \E o \in HttpOutcomes : exec' = [exec EXCEPT ![i] = ExecuteRequestResume(exec[i], o, now)]
  /\ InputsUntouched
  /\ UNCHANGED <<pc, idx, results, runStartTime, timerDue, timerLog, output, httpLog,
                 callLog, now>>
  /\ UNCHANGED callVars
  /\ UNCHANGED serverVars
  /\ UNCHANGED scriptVars

\* await executeRequest(...) resumes in the sequential loop
SeqResume ==
  /\ pc = "seq_await"
  /\ exec[idx].state \in {"fulfilled", "rejected"}
  /\ IF exec[idx].state = "rejected"
     THEN /\ pc' = "rejected"
          /\ UNCHANGED <<idx, results, exec, timerDue, timerLog, output, httpLog, callLog>>
     ELSE LET res == Append(results, exec[idx].result)
          IN IF DelayRequested
             THEN /\ pc' = "seq_delay"
                  /\ results' = res
                  /\ timerDue' = now + options.delayBetweenRequests
                  /\ timerLog' = Append(timerLog, idx)
                  /\ UNCHANGED <<idx, exec, output, httpLog, callLog>>
             ELSE SeqIterate(idx + 1, res, runStartTime)
  /\ InputsUntouched
  /\ UNCHANGED <<runStartTime, now>>
  /\ UNCHANGED callVars
  /\ UNCHANGED serverVars
  /\ UNCHANGED scriptVars

\* the delay promise is not awaited
TimerFiredEarly(due, t) == TRUE

\* setTimeout(resolve, delay): the callback runs once the delay has passed
TimerFired(due, t) == t >= due

\* the setTimeout of the sequential loop fires
SeqDelayDone ==
  /\ pc = "seq_delay"
  /\ TimerFired(timerDue, now)
  /\ SeqIterate(idx + 1, results, runStartTime)
  /\ InputsUntouched
  /\ UNCHANGED <<runStartTime, now>>
  /\ UNCHANGED callVars
  /\ UNCHANGED serverVars
  /\ UNCHANGED scriptVars

\* Promise.race in place of Promise.all: one fulfilled promise is enough
AllFulfilledRace(e) == \E i \in DOMAIN e : e[i].state = "fulfilled"

\* the values in the order in which the promises settled
PromiseAllByCompletion(e) ==
  LET n == Len(e)
      done(i) == e[i].startTime + e[i].result.duration
      order == CHOOSE f \in [1..n -> 1..n] :
                 /\ \A i, j \in 1..n : i # j => f[i] # f[j]
                 /\ \A i, j \in 1..n :
                      i < j => \/ done(f[i]) < done(f[j])
                               \/ done(f[i]) = done(f[j]) /\ f[i] < f[j]
  IN [i \in 1..n |-> e[order[i]].result]

\* Promise.all: fulfilled when every promise is, with the values in the
\* promises' order
AllFulfilled(e) == \A i \in DOMAIN e : e[i].state = "fulfilled"
PromiseAllValues(e) == [i \in DOMAIN e |-> e[i].result]

\* await Promise.all(promises) resumes: it rejects as soon as one promise
\* is rejected and fulfils, with the values in the promises' order, when
\* all are fulfilled
ParResume ==
  /\ pc = "par_await"
  /\ IF \E i \in DOMAIN exec : exec[i].state = "rejected"
     THEN /\ pc' = "rejected"
          /\ UNCHANGED <<idx, results, exec, timerDue, timerLog, output, httpLog, callLog>>
     ELSE /\ AllFulfilled(exec)
          /\ Return(results \o PromiseAllValues(exec), runStartTime)
  /\ InputsUntouched
  /\ UNCHANGED <<runStartTime, now>>
  /\ UNCHANGED callVars
  /\ UNCHANGED serverVars
  /\ UNCHANGED scriptVars

\* how far the clock runs: one millisecond further in a run that pauses,
\* for the pause after its last request
ClockBound ==
  IF IsSequential(options.executionMode) /\ DelayRequested THEN MaxTime + 1
  ELSE MaxTime

\* a millisecond passes while something is pending
Tick ==
  /\ now < ClockBound
  /\ pc \in {"seq_await", "seq_delay", "par_await"}
       \/ \E i \in DOMAIN exec : exec[i].state = "inflight"
  /\ now' = now + 1
  /\ InputsUntouched
  /\ UNCHANGED <<pc, idx, results, runStartTime, exec, timerDue, timerLog, output,
                 httpLog, callLog>>
  /\ UNCHANGED callVars
  /\ UNCHANGED serverVars
  /\ UNCHANGED scriptVars

(***************************************************************************)
(* runScript                                                               *)
(*                                                                         *)
(* A script is a sequence of statements.  The statements below stand for   *)
(* what a script can do to its sandbox: write through the pm binding,      *)
(* throw, run forever, exhaust the isolate's memory, fail to parse, and    *)
(* open or close an immediately invoked function.                          *)
(***************************************************************************)
StmtSet == "pm.setSync('b', 'y');"
StmtThrow == "throw new Error('boom');"
StmtLoop == "while (true) {}"
StmtAlloc == "a = []; while (true) a.push(new Array(1e6));"
StmtBad == ")"
StmtOpen == "(function () {"
StmtClose == "})();"
StmtComment == "// comment"
StmtReturn == "return pm;"

\* new ivm.Isolate({ memoryLimit: 128 }), context.eval(code, { timeout: 1000 })
MemoryLimit == 128
ScriptTimeout == 1000

\* a global of an isolate's context: unset, or a reference to a host object
NoBinding == [kind |-> "none", target |-> 0]
Reference(target) == [kind |-> "reference", target |-> target]

\* new ivm.Isolate({ memoryLimit: 128 })
NewIsolate == [memoryLimit |-> MemoryLimit, isDisposed |-> FALSE,
               hasContext |-> FALSE, pm |-> NoBinding]

\* if (!isolate.isDisposed) isolate.dispose()
Dispose(isolate) ==
  IF isolate.isDisposed THEN isolate ELSE [isolate EXCEPT !.isDisposed = TRUE]

\* the template literal: the script between two comment lines, then the
\* return statement
WrapScript(script) == <<StmtComment>> \o script \o <<StmtComment, StmtReturn>>

\* compilation of code as a script, from statement i at function depth
\* depth: "" if it compiles, the SyntaxError's message otherwise.  A return
\* statement is legal inside a function only.
RECURSIVE CompileFrom(_, _, _)
CompileFrom(code, i, depth) ==
  IF i > Len(code)
  THEN IF depth = 0 THEN "" ELSE "Unexpected end of input"
  ELSE IF code[i] = StmtBad THEN "Unexpected token ')'"
  ELSE IF code[i] = StmtOpen THEN CompileFrom(code, i + 1, depth + 1)
  ELSE IF code[i] = StmtClose
       THEN IF depth = 0 THEN "Unexpected token '}'"
            ELSE CompileFrom(code, i + 1, depth - 1)
  ELSE IF code[i] = StmtReturn /\ depth = 0 THEN "Illegal return statement"
  ELSE CompileFrom(code, i + 1, depth)

\* context.eval compiles its code as a script
CompileScript(code) == CompileFrom(code, 1, 0)

\* how context.eval settled: it threw msg, or it gave value; h is the host
\* heap and isDisposed the isolate's state afterwards, elapsed the time the
\* script ran
EvalOutcome(threw, msg, value, h, isDisposed, elapsed) ==
  [threw |-> threw, msg |-> msg, value |-> value, heap |-> h,
   isDisposed |-> isDisposed, elapsed |-> elapsed]

\* pm.setSync('b', 'y') in the isolate: the write goes to the host object
\* that pm refers to
SetThrough(pm, h) ==
  IF pm.kind = "reference"
  THEN [h EXCEPT ![pm.target] = (NameB :> StrV(<<"y">>)) @@ h[pm.target]]
  ELSE h

\* the compiled code runs from statement i with the global pm and the host
\* heap h.  A script's value is undefined unless a return statement gives
\* pm; a script that runs until the timeout is terminated; one that
\* exhausts the memory limit has its isolate disposed.
RECURSIVE RunFrom(_, _, _, _)
RunFrom(code, i, pm, h) ==
  IF i > Len(code) THEN EvalOutcome(FALSE, "", NoBinding, h, FALSE, 0)
  ELSE IF code[i] = StmtSet THEN RunFrom(code, i + 1, pm, SetThrough(pm, h))
  ELSE IF code[i] = StmtThrow THEN EvalOutcome(TRUE, "boom", NoBinding, h, FALSE, 0)
  ELSE IF code[i] = StmtLoop
       THEN EvalOutcome(TRUE, "Script execution timed out.", NoBinding, h, FALSE,
                        ScriptTimeout)
  ELSE IF code[i] = StmtAlloc
       THEN EvalOutcome(TRUE, "Isolate was disposed during execution due to memory limit",
                        NoBinding, h, TRUE, 0)
  ELSE IF code[i] = StmtReturn THEN EvalOutcome(FALSE, "", pm, h, FALSE, 0)
  ELSE RunFrom(code, i + 1, pm, h)

\* context.eval(code, { timeout: 1000 }) whose compilation gave compiled
ContextEvalCompiled(code, compiled, pm, h) ==
  IF compiled # "" THEN EvalOutcome(TRUE, compiled, NoBinding, h, FALSE, 0)
  ELSE RunFrom(code, 1, pm, h)

\* context.eval(code, { timeout: 1000 }) in isolate, with host heap h
ContextEval(code, isolate, h) ==
  ContextEvalCompiled(code, CompileScript(code), isolate.pm, h)

\* how runScript settled (kind "none": not yet): it returned
\* { variables, error? } or it rejected with reason
NoSettlement == [kind |-> "none", variables |-> 0, hasError |-> FALSE,
                 error |-> "", reason |-> ""]
ScriptRunResult(variables) ==
  [kind |-> "returned", variables |-> variables, hasError |-> FALSE,
   error |-> "", reason |-> ""]
Rejection(reason) ==
  [kind |-> "rejected", variables |-> 0, hasError |-> FALSE, error |-> "",
   reason |-> reason]

\* the exception leaves runScript
RunScriptCatchRethrow(variables, message) == Rejection(message)

\* the catch block: return { variables, error: err.message }
RunScriptCatch(variables, message) ==
  [kind |-> "returned", variables |-> variables, hasError |-> TRUE,
   error |-> message, reason |-> ""]

\* an isolate is created for every script
ScriptMissingNever(script) == FALSE

\* if (!script): the empty string (and an absent script) is falsy
ScriptMissing(script) == script = <<>>

\* a call of runScript.  before holds the contents of the bag when the call
\* was made.
NoBag == [n \in {} |-> NullV]
NoInvocation == [pc |-> "idle", script |-> <<>>, variables |-> 0, before |-> NoBag,
                 isolate |-> 0, elapsed |-> 0, settled |-> NoSettlement]

NoScriptCalls ==
  /\ invocation = <<>>
  /\ heap = <<>>
  /\ isolates = <<>>

Settle(c, settlement) ==
  invocation' = [invocation EXCEPT ![c].pc = settlement.kind,
                                   ![c].settled = settlement]

\* runScript(script, variables) is called with a bag whose contents are
\* bag: an empty script returns at once, otherwise the isolate is created
\* and createContext() is awaited
RunScriptCalled(c, script, bag) ==
  /\ invocation[c].pc = "idle"
  /\ \A d \in 1..(c - 1) : invocation[d].pc # "idle"
  /\ heap' = Append(heap, bag)
  /\ IF ScriptMissing(script)
     THEN /\ invocation' = [invocation EXCEPT
                              ![c] = [NoInvocation EXCEPT
                                        !.pc = "returned", !.script = script,
                                        !.variables = Len(heap) + 1,
                                        !.before = bag,
                                        !.settled = ScriptRunResult(Len(heap) + 1)]]
          /\ UNCHANGED isolates
     ELSE /\ invocation' = [invocation EXCEPT
                              ![c] = [NoInvocation EXCEPT
                                        !.pc = "create_context", !.script = script,
                                        !.variables = Len(heap) + 1,
                                        !.before = bag,
                                        !.isolate = Len(isolates) + 1]]
          /\ isolates' = Append(isolates, NewIsolate)
  /\ UNCHANGED runVars
  /\ UNCHANGED callVars
  /\ UNCHANGED serverVars

\* await isolate.createContext() settles: on success jail.set('pm', new
\* ivm.Reference(variables)) is awaited; a rejection leaves runScript, the
\* try statement not yet entered
CreateContextSettled(c, fulfilled) ==
  /\ invocation[c].pc = "create_context"
  /\ IF fulfilled
     THEN /\ invocation' = [invocation EXCEPT ![c].pc = "set_pm"]
          /\ isolates' = [isolates EXCEPT ![invocation[c].isolate].hasContext = TRUE]
     ELSE /\ Settle(c, Rejection("createContext failed"))
          /\ UNCHANGED isolates
  /\ UNCHANGED heap
  /\ UNCHANGED runVars
  /\ UNCHANGED callVars
  /\ UNCHANGED serverVars

\* await jail.set('pm', ...) settles: on success the try block is entered
\* and context.eval(code, { timeout: 1000 }) is awaited; a rejection leaves
\* runScript, the try statement not yet entered
JailSetSettled(c, fulfilled) ==
  /\ invocation[c].pc = "set_pm"
  /\ IF fulfilled
     THEN /\ invocation' = [invocation EXCEPT ![c].pc = "eval"]
          /\ isolates' = [isolates EXCEPT
                            ![invocation[c].isolate].pm = Reference(invocation[c].variables)]
     ELSE /\ Settle(c, Rejection("set failed"))
          /\ UNCHANGED isolates
  /\ UNCHANGED heap
  /\ UNCHANGED runVars
  /\ UNCHANGED callVars
  /\ UNCHANGED serverVars

\* await result.copy(): a reference gives a new host object with the
\* contents of its target; undefined has no copy method, which throws
CopyFails(value) == value.kind # "reference"
CopyHeap(value, h) == IF CopyFails(value) THEN h ELSE Append(h, h[value.target])

\* the try statement once context.eval has settled with o: the copy of the
\* result is returned, or the exception of eval or of copy is caught
TrySettlement(variables, o) ==
  IF o.threw THEN RunScriptCatch(variables, o.msg)
  ELSE IF CopyFails(o.value)
       THEN RunScriptCatch(variables, "Cannot read properties of undefined (reading 'copy')")
       ELSE ScriptRunResult(Len(o.heap) + 1)

\* the finally block disposes the isolate unless the memory limit already
\* did, and runScript settles
RunScriptFinish(c, o, settlement) ==
  /\ heap' = CopyHeap(o.value, o.heap)
  /\ isolates' = [isolates EXCEPT
                    ![invocation[c].isolate] =
                       Dispose([isolates[invocation[c].isolate] EXCEPT
                                  !.isDisposed = o.isDisposed])]
  /\ invocation' = [invocation EXCEPT ![c].elapsed = o.elapsed,
                                      ![c].pc = settlement.kind,
                                      ![c].settled = settlement]

\* the rest of runScript once context.eval has settled with o
RunScriptTry(c, o) == RunScriptFinish(c, o, TrySettlement(invocation[c].variables, o))

\* await context.eval(code, { timeout: 1000 }) settles
EvalSettled(c) ==
  /\ invocation[c].pc = "eval"
  /\ RunScriptTry(c, ContextEval(WrapScript(invocation[c].script),
                                 isolates[invocation[c].isolate], heap))
  /\ UNCHANGED runVars
  /\ UNCHANGED callVars
  /\ UNCHANGED serverVars

(***************************************************************************)
(* The runs checked: every list of up to MaxRequests templates, every bag  *)
(* of Bags, both execution modes (and a mode that is neither), with and    *)
(* without a delay.                                                        *)
(***************************************************************************)
\* requests rows carry database serials as ids: the i-th row's id
RequestId(i) == ((i * 7) % 10) + 1

TxtHost == <<"h">>
TxtKey == <<"k">>

\* url, headers, body and params of the templates
TemplateShapes ==
  { [url |-> TxtHost, headers |-> JsonObject(<<>>), body |-> Absent, params |-> Absent],
    [url |-> TxtHost \o <<"/">> \o Placeholder(NameA),
     headers |-> JsonObject(<<Entry(TxtKey, Placeholder(NameB))>>),
     body |-> Absent, params |-> Absent],
    [url |-> TxtHost, headers |-> Absent,
     body |-> JsonObject(<<Entry(TxtKey, Placeholder(NameA))>>), params |-> Absent],
    [url |-> Placeholder(NameB), headers |-> Absent, body |-> Absent,
     params |-> JsonObject(<<Entry(Placeholder(NameA), TxtHost)>>)] }

Template(i, shape) ==
  [id |-> RequestId(i), name |-> "request", method |-> "GET", url |-> shape.url,
   headers |-> shape.headers, body |-> shape.body, params |-> shape.params]

RequestLists ==
  UNION { { [i \in 1..n |-> Template(i, f[i])] : f \in [1..n -> TemplateShapes] }
          : n \in 0..MaxRequests }

\* variable bags: a plain text, a text that breaks JSON, a value without a
\* string representation, falsy values
Bags ==
  { (NameA :> StrV(<<"x">>) @@ NameB :> StrV(<<"y">>)),
    (NameA :> StrV(<<"\"">>)),
    (NameA :> ObjV({NameToString}) @@ NameB :> NumV(0)) }

ExecutionModes == {"sequential", "parallel"}
Delays == {0, 1}

NoCall == Returned(<<>>)

Init ==
  /\ requests \in RequestLists
  /\ \E m \in ExecutionModes, d \in Delays, b \in Bags :
       options = [executionMode |-> m, delayBetweenRequests |-> d,
                  environment |-> "development", variables |-> b]
  /\ pc = "called"
  /\ idx = 0
  /\ results = <<>>
  /\ runStartTime = 0
  /\ exec = [i \in DOMAIN requests |-> Idle]
  /\ timerDue = 0
  /\ timerLog = <<>>
  /\ output = NoOutput
  /\ httpLog = <<>>
  /\ callLog = <<>>
  /\ now = 0
  /\ argStr = <<>>
  /\ argVars = <<>>
  /\ callState = "none"
  /\ retVal = NoCall
  /\ NoScriptCalls
  /\ NoServer

Next ==
  \/ StartRun
  \/ \E i \in DOMAIN exec : HttpSettle(i)
  \/ SeqResume
  \/ SeqDelayDone
  \/ ParResume
  \/ Tick

Spec == Init /\ [][Next]_vars

(***************************************************************************)
(* The runs of Spec whose bag holds a text that breaks JSON.               *)
(***************************************************************************)
QuoteBag == (NameA :> StrV(<<"\"">>))

InitMalformed == Init /\ options.variables = QuoteBag

SpecMalformed == InitMalformed /\ [][Next]_vars

(***************************************************************************)
(* The runs with a delay whose mode is 'sequential' or a value that is     *)
(* neither 'sequential' nor 'parallel'.                                    *)
(***************************************************************************)
OtherModes == {"Sequential"}

InitMode ==
  /\ requests \in RequestLists
  /\ \E m \in {"sequential"} \cup OtherModes, b \in Bags :
       options = [executionMode |-> m, delayBetweenRequests |-> 1,
                  environment |-> "development", variables |-> b]
  /\ pc = "called"
  /\ idx = 0
  /\ results = <<>>
  /\ runStartTime = 0
  /\ exec = [i \in DOMAIN requests |-> Idle]
  /\ timerDue = 0
  /\ timerLog = <<>>
  /\ output = NoOutput
  /\ httpLog = <<>>
  /\ callLog = <<>>
  /\ now = 0
  /\ argStr = <<>>
  /\ argVars = <<>>
  /\ callState = "none"
  /\ retVal = NoCall
  /\ NoScriptCalls
  /\ NoServer

SpecMode == InitMode /\ [][Next]_vars

(***************************************************************************)
(* One call of replaceVariables, on every text of up to MaxLen characters  *)
(* over Alphabet and on the texts of ExtraTexts, with every bag of         *)
(* CallBags.                                                               *)
(***************************************************************************)
Alphabet == {"{", "}", "a", "/"}

Texts(n) == UNION { [1..k -> Alphabet] : k \in 0..n }

ExtraTexts ==
  { Placeholder(NameConstructor), Placeholder(NameToString), Placeholder(NameProto),
    Placeholder(NameA) \o Placeholder(NameB),
    Placeholder(NameB) \o <<"/">> \o Placeholder(NameA) \o <<"}">> }

BagValues ==
  { StrV(<<"x">>), StrV(<<>>), StrV(Placeholder(NameB)), NumV(0), NumV(42),
    BoolV(FALSE), BoolV(TRUE), NullV, ObjV({}), ObjV({NameToString}),
    ArrV(<<1, 2>>) }

EmptyBag == [n \in {} |-> NullV]

CallBags ==
  {EmptyBag} \cup { (NameA :> v) : v \in BagValues }
  \cup { (NameA :> StrV(Placeholder(NameB)) @@ NameB :> StrV(<<"y">>)),
         (NameA :> StrV(Placeholder(NameB)) @@ NameB :> StrV(Placeholder(NameA))),
         (NameA :> StrV(Placeholder(NameA))),
         (NameA :> NumV(0) @@ NameB :> StrV(<<"y">>)) }

NoOptions == [executionMode |-> "parallel", delayBetweenRequests |-> 0,
              environment |-> "development", variables |-> EmptyBag]

InitReplace ==
  /\ argStr \in Texts(MaxLen) \cup ExtraTexts
  /\ argVars \in CallBags
  /\ callState = "called"
  /\ retVal = NoCall
  /\ requests = <<>>
  /\ options = NoOptions
  /\ pc = "none"
  /\ idx = 0
  /\ results = <<>>
  /\ runStartTime = 0
  /\ exec = <<>>
  /\ timerDue = 0
  /\ timerLog = <<>>
  /\ output = NoOutput
  /\ httpLog = <<>>
  /\ callLog = <<>>
  /\ now = 0
  /\ NoScriptCalls
  /\ NoServer

\* replaceVariables(argStr, argVars) is called and returns or throws
CallReplaceVariables ==
  /\ callState = "called"
  /\ retVal' = replaceVariables(argStr, argVars)
  /\ callState' = "returned"
  /\ UNCHANGED <<argStr, argVars>>
  /\ UNCHANGED runVars
  /\ UNCHANGED scriptVars
  /\ UNCHANGED serverVars

NextReplace == CallReplaceVariables

SpecReplace == InitReplace /\ [][NextReplace]_vars

\* a string value of the bag that itself holds a placeholder
HoldsPlaceholder(v) ==
  /\ v.t = "string"
  /\ \E i \in DOMAIN v.s : MatchAt(v.s, i) # 0

\* the calls whose bag has a value that holds a placeholder
InitNested ==
  /\ InitReplace
  /\ \E n \in DOMAIN argVars : HoldsPlaceholder(argVars[n])

SpecNested == InitNested /\ [][NextReplace]_vars

(***************************************************************************)
(* Up to MaxCalls calls of runScript, which may overlap, each with a       *)
(* script of Scripts and a bag of ScriptBags.                              *)
(***************************************************************************)
MaxCalls == 2

Scripts ==
  { <<>>, <<StmtSet>>, <<StmtThrow>>, <<StmtLoop>>, <<StmtAlloc>>, <<StmtBad>>,
    <<StmtSet, StmtThrow>>, <<StmtOpen, StmtSet>>, <<StmtOpen, StmtSet, StmtClose>> }

ScriptBags ==
  { (NameA :> StrV(<<"x">>)),
    (NameA :> StrV(<<"x">>) @@ NameB :> StrV(<<"x">>)) }

InitScript ==
  /\ invocation = [c \in 1..MaxCalls |-> NoInvocation]
  /\ heap = <<>>
  /\ isolates = <<>>
  /\ argStr = <<>>
  /\ argVars = <<>>
  /\ callState = "none"
  /\ retVal = NoCall
  /\ requests = <<>>
  /\ options = NoOptions
  /\ pc = "none"
  /\ idx = 0
  /\ results = <<>>
  /\ runStartTime = 0
  /\ exec = <<>>
  /\ timerDue = 0
  /\ timerLog = <<>>
  /\ output = NoOutput
  /\ httpLog = <<>>
  /\ callLog = <<>>
  /\ now = 0
  /\ NoServer

NextScript ==
  \/ \E c \in DOMAIN invocation, script \in Scripts, bag \in ScriptBags :
       RunScriptCalled(c, script, bag)
  \/ \E c \in DOMAIN invocation, fulfilled \in BOOLEAN : CreateContextSettled(c, fulfilled)
  \/ \E c \in DOMAIN invocation, fulfilled \in BOOLEAN : JailSetSettled(c, fulfilled)
  \/ \E c \in DOMAIN invocation : EvalSettled(c)

SpecScript == InitScript /\ [][NextScript]_vars

(***************************************************************************)
(* The database.  db holds the committed rows of the tables initDatabase   *)
(* creates and the last value of each SERIAL sequence.  A pooled           *)
(* connection has a transaction state and the rows it has inserted but     *)
(* not committed.  Statements run at READ COMMITTED: a statement sees the  *)
(* committed rows and the rows of its own transaction.                     *)
(***************************************************************************)
MaxHandlers == 2

Tables == {"users", "workspaces", "collections", "requests", "variables"}

EmptyDb ==
  [users |-> {}, workspaces |-> {}, collections |-> {}, requests |-> {},
   variables |-> {}, seq |-> [t \in Tables |-> 0]]

\* nextval of the table's id sequence; a value once drawn is never reused
NextVal(table) == db.seq[table] + 1

IdleClient == [busy |-> FALSE, txn |-> "none", users |-> {}, workspaces |-> {}]

\* pool.connect() resolves with an idle client
CheckOut(c) == [pool EXCEPT ![c].busy = TRUE]

\* client.release(): the client goes back to the pool as it is
Release(p, c) == [p EXCEPT ![c].busy = FALSE]

\* BEGIN: opens a transaction; inside one it only raises a warning
Begin(c) == [pool EXCEPT ![c].txn = IF @ = "none" THEN "open" ELSE @]

\* a failed statement aborts the transaction it runs in
Abort(c) == [pool EXCEPT ![c].txn = IF @ = "none" THEN "none" ELSE "aborted"]

\* ROLLBACK, and the end of a committed transaction: nothing is pending
EndTransaction(c) ==
  [pool EXCEPT ![c].txn = "none", ![c].users = {}, ![c].workspaces = {}]

\* the rows of users a statement on client c sees
VisibleUsers(c) == db.users \cup pool[c].users

\* users.email is UNIQUE: a committed row with the e-mail rejects the insert
UniqueViolationNever(email) == FALSE

UniqueViolation(email) == \E u \in db.users : u.email = email

\* an insert waits while another open transaction holds a row with the
\* same e-mail
InsertWaits(c, email) ==
  \E o \in DOMAIN pool : o # c /\ \E u \in pool[o].users : u.email = email

PgUniqueViolation == "23505"
PgConnectionFailure == "08006"

(***************************************************************************)
(* POST /register.  Each action is the handler's code from one await to    *)
(* the next; ok says whether the awaited query succeeded.                  *)
(***************************************************************************)
Emails == {"a@x.io", "b@x.io"}

RegisterBodies ==
  { [email |-> e, password |-> "pw", name |-> "N"] : e \in Emails }
  \cup { [email |-> "", password |-> "pw", name |-> "N"] }

NoBody == [email |-> "", password |-> "", name |-> ""]

NewHandler ==
  [pc |-> "idle", body |-> NoBody, client |-> 0, userId |-> 0, err |-> "",
   status |-> 0]

\* res.status(code).json(...)
Respond(h, code) == [handlers EXCEPT ![h].pc = "done", ![h].status = code]

\* a rejected query: control goes to the catch block of the transaction
Caught(h, code) == [handlers EXCEPT ![h].pc = "rollback", ![h].err = code]

RegisterReceived(h, body) ==
  /\ handlers[h].pc = "idle"
  /\ IF body.email = "" \/ body.password = "" \/ body.name = ""
     THEN handlers' = [Respond(h, 400) EXCEPT ![h].body = body]
     ELSE handlers' = [handlers EXCEPT ![h].pc = "connect", ![h].body = body]
  /\ UNCHANGED <<db, pool>>
  /\ UNCHANGED <<runVars, callVars, scriptVars>>

RegisterConnected(h, c) ==
  /\ handlers[h].pc = "connect"
  /\ ~pool[c].busy
  /\ pool' = CheckOut(c)
  /\ handlers' = [handlers EXCEPT ![h].pc = "begin", ![h].client = c]
  /\ UNCHANGED db
  /\ UNCHANGED <<runVars, callVars, scriptVars>>

RegisterBegun(h, ok) ==
  /\ handlers[h].pc = "begin"
  /\ IF ok
     THEN /\ pool' = Begin(handlers[h].client)
          /\ handlers' = [handlers EXCEPT ![h].pc = "select"]
     ELSE /\ pool' = pool
          /\ handlers' = Caught(h, PgConnectionFailure)
  /\ UNCHANGED db
  /\ UNCHANGED <<runVars, callVars, scriptVars>>

\* SELECT id FROM users WHERE email = $1; a row found answers 409 and the
\* finally block releases the client
RegisterSelected(h, ok) ==
  /\ handlers[h].pc = "select"
  /\ LET c == handlers[h].client
     IN IF ~ok
        THEN /\ pool' = Abort(c)
             /\ handlers' = Caught(h, PgConnectionFailure)
        ELSE IF \E u \in VisibleUsers(c) : u.email = handlers[h].body.email
        THEN /\ pool' = Release(pool, c)
             /\ handlers' = Respond(h, 409)
        ELSE /\ pool' = pool
             /\ handlers' = [handlers EXCEPT ![h].pc = "insert_user"]
  /\ UNCHANGED db
  /\ UNCHANGED <<runVars, callVars, scriptVars>>

\* bcrypt.hash, then INSERT INTO users ... RETURNING id, email, name
RegisterUserInserted(h, ok) ==
  /\ handlers[h].pc = "insert_user"
  /\ LET c == handlers[h].client
         email == handlers[h].body.email
     IN IF ~ok
        THEN /\ pool' = Abort(c)
             /\ handlers' = Caught(h, PgConnectionFailure)
             /\ db' = db
        ELSE /\ ~InsertWaits(c, email)
             /\ db' = [db EXCEPT !.seq["users"] = NextVal("users")]
             /\ IF UniqueViolation(email)
                THEN /\ pool' = Abort(c)
                     /\ handlers' = Caught(h, PgUniqueViolation)
                ELSE /\ pool' = [pool EXCEPT ![c].users =
                                   @ \cup {[id |-> NextVal("users"), email |-> email]}]
                     /\ handlers' = [handlers EXCEPT ![h].pc = "insert_workspace",
                                                     ![h].userId = NextVal("users")]
  /\ UNCHANGED <<runVars, callVars, scriptVars>>

\* INSERT INTO workspaces (name, owner_id) ... RETURNING id, name
RegisterWorkspaceInserted(h, ok) ==
  /\ handlers[h].pc = "insert_workspace"
  /\ LET c == handlers[h].client
     IN IF ~ok
        THEN /\ pool' = Abort(c)
             /\ handlers' = Caught(h, PgConnectionFailure)
             /\ db' = db
        ELSE /\ db' = [db EXCEPT !.seq["workspaces"] = NextVal("workspaces")]
             /\ pool' = [pool EXCEPT ![c].workspaces =
                           @ \cup {[id |-> NextVal("workspaces"),
                                    owner_id |-> handlers[h].userId]}]
             /\ handlers' = [handlers EXCEPT ![h].pc = "commit"]
  /\ UNCHANGED <<runVars, callVars, scriptVars>>

\* COMMIT, the token, the 201 response, and the finally block
RegisterCommitted(h, ok) ==
  /\ handlers[h].pc = "commit"
  /\ LET c == handlers[h].client
     IN IF ~ok
        THEN /\ pool' = Abort(c)
             /\ handlers' = Caught(h, PgConnectionFailure)
             /\ db' = db
        ELSE /\ db' = [db EXCEPT !.users = @ \cup pool[c].users,
                                 !.workspaces = @ \cup pool[c].workspaces]
             /\ pool' = Release(EndTransaction(c), c)
             /\ handlers' = Respond(h, 201)
  /\ UNCHANGED <<runVars, callVars, scriptVars>>

\* the catch block's ROLLBACK, the finally block, and the outer catch
RegisterRolledBack(h) ==
  /\ handlers[h].pc = "rollback"
  /\ pool' = Release(EndTransaction(handlers[h].client), handlers[h].client)
  /\ handlers' = Respond(h, IF handlers[h].err = PgUniqueViolation THEN 409 ELSE 500)
  /\ UNCHANGED db
  /\ UNCHANGED <<runVars, callVars, scriptVars>>

(***************************************************************************)
(* MaxHandlers requests to POST /register, which may overlap, on an empty  *)
(* database and a pool with a client for each.                             *)
(***************************************************************************)
NoRun ==
  /\ requests = <<>>
  /\ options = NoOptions
  /\ pc = "none"
  /\ idx = 0
  /\ results = <<>>
  /\ runStartTime = 0
  /\ exec = <<>>
  /\ timerDue = 0
  /\ timerLog = <<>>
  /\ output = NoOutput
  /\ httpLog = <<>>
  /\ callLog = <<>>
  /\ now = 0
  /\ argStr = <<>>
  /\ argVars = <<>>
  /\ callState = "none"
  /\ retVal = NoCall
  /\ NoScriptCalls

InitRegister ==
  /\ db = EmptyDb
  /\ pool = [c \in 1..MaxHandlers |-> IdleClient]
  /\ handlers = [h \in 1..MaxHandlers |-> NewHandler]
  /\ NoRun

NextRegister ==
  \/ \E h \in DOMAIN handlers, body \in RegisterBodies : RegisterReceived(h, body)
  \/ \E h \in DOMAIN handlers, c \in DOMAIN pool : RegisterConnected(h, c)
  \/ \E h \in DOMAIN handlers, ok \in BOOLEAN : RegisterBegun(h, ok)
  \/ \E h \in DOMAIN handlers, ok \in BOOLEAN : RegisterSelected(h, ok)
  \/ \E h \in DOMAIN handlers, ok \in BOOLEAN : RegisterUserInserted(h, ok)
  \/ \E h \in DOMAIN handlers, ok \in BOOLEAN : RegisterWorkspaceInserted(h, ok)
  \/ \E h \in DOMAIN handlers, ok \in BOOLEAN : RegisterCommitted(h, ok)
  \/ \E h \in DOMAIN handlers : RegisterRolledBack(h)

SpecRegister == InitRegister /\ [][NextRegister]_vars

(***************************************************************************)
(* The routes behind authMiddleware.  A call carries the Authorization     *)
(* header's token, the route, the :id parameter (or the body's             *)
(* collection_id) as the text of an integer, and whether the body names a  *)
(* field.                                                                  *)
(* pool.query runs one statement on its own.                               *)
(***************************************************************************)
NoToken == [kind |-> "none", id |-> 0]
InvalidToken == [kind |-> "invalid", id |-> 0]
TokenOf(userId) == [kind |-> "valid", id |-> userId]

NoUser == [id |-> 0, workspace_id |-> 0]

NewCall ==
  [pc |-> "idle", op |-> "", token |-> NoToken, param |-> "", fields |-> FALSE,
   user |-> NoUser, status |-> 0]

\* the integer a parameter text stands for
ParamIds == ("1" :> 1) @@ ("2" :> 2)

\* LEFT JOIN workspaces w ON w.owner_id = u.id: the user's workspace, or
\* NULL (0) when the user owns none
WorkspaceOf(userId) ==
  IF \E w \in db.workspaces : w.owner_id = userId
  THEN (CHOOSE w \in db.workspaces : w.owner_id = userId).id
  ELSE 0

CallReceived(h, token, op, param, fields) ==
  /\ handlers[h].pc = "idle"
  /\ handlers' = [handlers EXCEPT ![h].pc = "auth", ![h].token = token,
                                  ![h].op = op, ![h].param = param,
                                  ![h].fields = fields]
  /\ UNCHANGED <<db, pool>>
  /\ UNCHANGED <<runVars, callVars, scriptVars>>

AuthMiddleware(h) ==
  /\ handlers[h].pc = "auth"
  /\ LET token == handlers[h].token
     IN IF token.kind # "valid"
        THEN handlers' = Respond(h, 401)
        ELSE IF ~\E u \in db.users : u.id = token.id
        THEN handlers' = Respond(h, 404)
        ELSE handlers' = [handlers EXCEPT
               ![h].pc = "route",
               ![h].user = [id |-> token.id, workspace_id |-> WorkspaceOf(token.id)]]
  /\ UNCHANGED <<db, pool>>
  /\ UNCHANGED <<runVars, callVars, scriptVars>>

\* the rows of every workspace
InWorkspaceOfAnyone(rows, workspaceId) == rows

\* WHERE workspace_id = $n: no row when the caller's workspace is NULL
InWorkspace(rows, workspaceId) == {r \in rows : r.workspace_id = workspaceId}

WithId(rows, id) == {r \in rows : r.id = id}

\* WHERE ... collection_id IN (SELECT id FROM collections WHERE workspace_id = $n)
RequestsInWorkspace(workspaceId) ==
  {r \in db.requests :
     \E c \in InWorkspace(db.collections, workspaceId) : r.collection_id = c.id}

\* SET name = $1 on the rows found
Renamed(rows, found) ==
  (rows \ found) \cup {[r EXCEPT !.name = "new"] : r \in found}

\* at its route, with the handler's code behind authMiddleware to run
AtRoute(h, op) == handlers[h].pc = "route" /\ handlers[h].op = op

\* the rows with the id the parameter names
Target(h, rows) ==
  WithId(rows, ParamIds[handlers[h].param])

\* a query on an :id: 404 when no row is found, else the code for rows
\* found
Answer(h, found, code) ==
  IF found = {} THEN Respond(h, 404) ELSE Respond(h, code)

GetCollectionFound(h) ==
  /\ AtRoute(h, "GET /collections/:id")
  /\ LET found == Target(h, InWorkspace(db.collections, handlers[h].user.workspace_id))
     IN IF found = {} THEN handlers' = Answer(h, found, 404)
        ELSE handlers' = [handlers EXCEPT ![h].pc = "second"]
  /\ UNCHANGED <<db, pool>>
  /\ UNCHANGED <<runVars, callVars, scriptVars>>

\* the requests of the collection are read and the two results answered
GetCollectionLoaded(h) ==
  /\ handlers[h].pc = "second"
  /\ handlers[h].op = "GET /collections/:id"
  /\ handlers' = Respond(h, 200)
  /\ UNCHANGED <<db, pool>>
  /\ UNCHANGED <<runVars, callVars, scriptVars>>

PutCollection(h) ==
  /\ AtRoute(h, "PUT /collections/:id")
  /\ LET found == Target(h, InWorkspace(db.collections, handlers[h].user.workspace_id))
     IN IF ~handlers[h].fields
        THEN handlers' = Respond(h, 400) /\ db' = db
        ELSE /\ handlers' = Answer(h, found, 200)
             /\ db' = [db EXCEPT !.collections = Renamed(@, found)]
  /\ UNCHANGED pool
  /\ UNCHANGED <<runVars, callVars, scriptVars>>

\* the requests of a deleted collection go with it (ON DELETE CASCADE)
DeleteCollection(h) ==
  /\ AtRoute(h, "DELETE /collections/:id")
  /\ LET found == Target(h, InWorkspace(db.collections, handlers[h].user.workspace_id))
     IN /\ handlers' = Answer(h, found, 200)
        /\ db' = [db EXCEPT
             !.collections = @ \ found,
             !.requests = {r \in @ : \A c \in found : r.collection_id # c.id}]
  /\ UNCHANGED pool
  /\ UNCHANGED <<runVars, callVars, scriptVars>>

GetRequest(h) ==
  /\ AtRoute(h, "GET /requests/:id")
  /\ handlers' = Answer(h, Target(h, RequestsInWorkspace(handlers[h].user.workspace_id)), 200)
  /\ UNCHANGED <<db, pool>>
  /\ UNCHANGED <<runVars, callVars, scriptVars>>

\* POST /requests: the body's fields, then the collection is looked up in
\* the caller's workspace
CreateRequestChecked(h) ==
  /\ AtRoute(h, "POST /requests")
  /\ LET found == Target(h, InWorkspace(db.collections, handlers[h].user.workspace_id))
     IN IF ~handlers[h].fields THEN handlers' = Respond(h, 400)
        ELSE IF found = {} THEN handlers' = Answer(h, found, 404)
        ELSE handlers' = [handlers EXCEPT ![h].pc = "second"]
  /\ UNCHANGED <<db, pool>>
  /\ UNCHANGED <<runVars, callVars, scriptVars>>

\* the INSERT; fk_collection rejects it when the collection is gone
CreateRequestInserted(h) ==
  /\ handlers[h].pc = "second"
  /\ handlers[h].op = "POST /requests"
  /\ IF Target(h, db.collections) = {}
     THEN /\ handlers' = Respond(h, 500)
          /\ db' = [db EXCEPT !.seq["requests"] = NextVal("requests")]
     ELSE /\ handlers' = Respond(h, 201)
          /\ db' = [db EXCEPT
               !.seq["requests"] = NextVal("requests"),
               !.requests = @ \cup {[id |-> NextVal("requests"),
                                     collection_id |-> ParamIds[handlers[h].param],
                                     name |-> "new"]}]
  /\ UNCHANGED pool
  /\ UNCHANGED <<runVars, callVars, scriptVars>>

PutRequest(h) ==
  /\ AtRoute(h, "PUT /requests/:id")
  /\ LET found == Target(h, RequestsInWorkspace(handlers[h].user.workspace_id))
     IN IF ~handlers[h].fields
        THEN handlers' = Respond(h, 400) /\ db' = db
        ELSE /\ handlers' = Answer(h, found, 200)
             /\ db' = [db EXCEPT !.requests = Renamed(@, found)]
  /\ UNCHANGED pool
  /\ UNCHANGED <<runVars, callVars, scriptVars>>

DeleteRequest(h) ==
  /\ AtRoute(h, "DELETE /requests/:id")
  /\ LET found == Target(h, RequestsInWorkspace(handlers[h].user.workspace_id))
     IN /\ handlers' = Answer(h, found, 200)
        /\ db' = [db EXCEPT !.requests = @ \ found]
  /\ UNCHANGED pool
  /\ UNCHANGED <<runVars, callVars, scriptVars>>

PutVariable(h) ==
  /\ AtRoute(h, "PUT /variables/:id")
  /\ LET found == Target(h, InWorkspace(db.variables, handlers[h].user.workspace_id))
     IN IF ~handlers[h].fields
        THEN handlers' = Respond(h, 400) /\ db' = db
        ELSE /\ handlers' = Answer(h, found, 200)
             /\ db' = [db EXCEPT !.variables = Renamed(@, found)]
  /\ UNCHANGED pool
  /\ UNCHANGED <<runVars, callVars, scriptVars>>

DeleteVariable(h) ==
  /\ AtRoute(h, "DELETE /variables/:id")
  /\ LET found == Target(h, InWorkspace(db.variables, handlers[h].user.workspace_id))
     IN /\ handlers' = Answer(h, found, 200)
        /\ db' = [db EXCEPT !.variables = @ \ found]
  /\ UNCHANGED pool
  /\ UNCHANGED <<runVars, callVars, scriptVars>>

(***************************************************************************)
(* MaxHandlers calls by two registered users, which may overlap, on a      *)
(* database where each user's workspace has a collection, a request and a  *)
(* variable.                                                               *)
(***************************************************************************)
TwoWorkspaces ==
  [users |-> {[id |-> 1, email |-> "a@x.io"], [id |-> 2, email |-> "b@x.io"]},
   workspaces |-> {[id |-> 1, owner_id |-> 1], [id |-> 2, owner_id |-> 2]},
   collections |-> {[id |-> 1, workspace_id |-> 1, name |-> "old"],
                    [id |-> 2, workspace_id |-> 2, name |-> "old"]},
   requests |-> {[id |-> 1, collection_id |-> 2, name |-> "old"],
                 [id |-> 2, collection_id |-> 1, name |-> "old"]},
   variables |-> {[id |-> 1, workspace_id |-> 2, name |-> "old"],
                  [id |-> 2, workspace_id |-> 1, name |-> "old"]},
   seq |-> [t \in Tables |-> 2]]

ReadRoutes == {"GET /collections/:id", "GET /requests/:id"}

DeleteRoutes ==
  {"DELETE /collections/:id", "DELETE /requests/:id", "DELETE /variables/:id"}

PutRoutes == {"PUT /collections/:id", "PUT /requests/:id", "PUT /variables/:id"}

Routes == ReadRoutes \cup DeleteRoutes \cup PutRoutes \cup {"POST /requests"}

Params == {"1", "2"}

\* the user whose token the h-th call carries
SessionUser(h) == ((h - 1) % 2) + 1

InitAccess ==
  /\ db = TwoWorkspaces
  /\ pool = <<>>
  /\ handlers = [h \in 1..MaxHandlers |-> NewCall]
  /\ NoRun

NextAccess ==
  \/ \E h \in DOMAIN handlers, op \in Routes, param \in Params, fields \in BOOLEAN :
       /\ fields \/ op \in PutRoutes \cup {"POST /requests"}
       /\ CallReceived(h, TokenOf(SessionUser(h)), op, param, fields)
  \/ \E h \in DOMAIN handlers : AuthMiddleware(h)
  \/ \E h \in DOMAIN handlers : GetCollectionFound(h)
  \/ \E h \in DOMAIN handlers : GetCollectionLoaded(h)
  \/ \E h \in DOMAIN handlers : PutCollection(h)
  \/ \E h \in DOMAIN handlers : DeleteCollection(h)
  \/ \E h \in DOMAIN handlers : GetRequest(h)
  \/ \E h \in DOMAIN handlers : CreateRequestChecked(h)
  \/ \E h \in DOMAIN handlers : CreateRequestInserted(h)
  \/ \E h \in DOMAIN handlers : PutRequest(h)
  \/ \E h \in DOMAIN handlers : DeleteRequest(h)
  \/ \E h \in DOMAIN handlers : PutVariable(h)
  \/ \E h \in DOMAIN handlers : DeleteVariable(h)

SpecAccess == InitAccess /\ [][NextAccess]_vars

(***************************************************************************)
(* POST /collections/:collectionId/run: the handler behind authMiddleware  *)
(* that calls runCollection.  The body's executionMode and environment     *)
(* are "" when absent; hasVariables says whether variables is there.       *)
(***************************************************************************)
RunRoute == "POST /collections/:collectionId/run"

NoRunBody ==
  [executionMode |-> "", delayBetweenRequests |-> 0, environment |-> "",
   variables |-> EmptyBag, hasVariables |-> FALSE]

NewRunCall == [body |-> NoRunBody, resBody |-> NoOutput] @@ NewCall

\* if (!executionMode || !environment || !variables) is not taken
RunBodyAcceptedWithoutVariables(body) ==
  body.executionMode # "" /\ body.environment # ""

RunBodyAccepted(body) ==
  body.executionMode # "" /\ body.environment # "" /\ body.hasVariables

\* SELECT id, name, method, url, headers, body, params
RequestColumns(row) ==
  [id |-> row.id, name |-> row.name, method |-> row.method, url |-> row.url,
   headers |-> row.headers, body |-> row.body, params |-> row.params]

\* ... ORDER BY created_at ASC
RECURSIVE OrderByCreatedAt(_)
OrderByCreatedAt(rows) ==
  IF rows = {} THEN <<>>
  ELSE LET first == CHOOSE r \in rows : \A q \in rows : r.created_at <= q.created_at
       IN <<RequestColumns(first)>> \o OrderByCreatedAt(rows \ {first})

\* the options object the handler builds from the body
RunOptionsOf(body) ==
  [executionMode |-> body.executionMode,
   delayBetweenRequests |-> body.delayBetweenRequests,
   environment |-> body.environment, variables |-> body.variables]

\* res.json(runResults): a property whose value is undefined is left out
ResJson(out) ==
  [out EXCEPT !.results =
     [i \in DOMAIN @ |->
        [@[i] EXCEPT !.response = IF out.results[i].hasResponse THEN @ ELSE NoResponse,
                     !.error = IF out.results[i].hasError THEN @ ELSE ""]]]

RunCallReceived(h, token, param, body) ==
  /\ handlers[h].pc = "idle"
  /\ handlers' = [handlers EXCEPT ![h].pc = "auth", ![h].token = token,
                                  ![h].op = RunRoute, ![h].param = param,
                                  ![h].body = body]
  /\ UNCHANGED <<db, pool>>
  /\ UNCHANGED <<runVars, callVars, scriptVars>>

\* the body's fields, then the collection is looked up in the caller's
\* workspace
RunRouteChecked(h) ==
  /\ AtRoute(h, RunRoute)
  /\ IF ~RunBodyAccepted(handlers[h].body) THEN handlers' = Respond(h, 400)
     ELSE IF Target(h, InWorkspace(db.collections, handlers[h].user.workspace_id)) = {}
     THEN handlers' = Respond(h, 404)
     ELSE handlers' = [handlers EXCEPT ![h].pc = "second"]
  /\ UNCHANGED <<db, pool>>
  /\ UNCHANGED <<runVars, callVars, scriptVars>>

\* the collection's requests are loaded and runCollection is called
RunRouteLoaded(h) ==
  /\ handlers[h].pc = "second"
  /\ handlers[h].op = RunRoute
  /\ pc = "none"
  /\ requests' = OrderByCreatedAt(
       {r \in db.requests : r.collection_id = ParamIds[handlers[h].param]})
  /\ options' = RunOptionsOf(handlers[h].body)
  /\ exec' = [i \in DOMAIN requests' |-> Idle]
  /\ pc' = "called"
  /\ handlers' = [handlers EXCEPT ![h].pc = "running"]
  /\ UNCHANGED <<idx, results, runStartTime, timerDue, timerLog, output, httpLog,
                 callLog, now>>
  /\ UNCHANGED <<db, pool>>
  /\ UNCHANGED <<callVars, scriptVars>>

\* runCollection has returned: res.status(200).json(runResults)
RunRouteAnswered(h) ==
  /\ handlers[h].pc = "running"
  /\ pc = "returned"
  /\ handlers' = [Respond(h, 200) EXCEPT ![h].resBody = ResJson(output)]
  /\ UNCHANGED <<db, pool>>
  /\ UNCHANGED <<runVars, callVars, scriptVars>>

\* runCollection has rejected: the catch block answers 500
RunRouteFailed(h) ==
  /\ handlers[h].pc = "running"
  /\ pc = "rejected"
  /\ handlers' = Respond(h, 500)
  /\ UNCHANGED <<db, pool>>
  /\ UNCHANGED <<runVars, callVars, scriptVars>>

(***************************************************************************)
(* One call of the route.  Collection 1, of user 1's workspace, holds the  *)
(* templates of a list of RequestLists; collection 2, of user 2's, none.   *)
(***************************************************************************)
RequestRows(list) ==
  { [collection_id |-> 1, created_at |-> i] @@ list[i] : i \in DOMAIN list }

RouteTokens == {NoToken, InvalidToken, TokenOf(1), TokenOf(2), TokenOf(3)}

RouteBags == {b \in Bags : b[NameA] # StrV(<<"x">>)}

RunBodies ==
  { [executionMode |-> m, delayBetweenRequests |-> d, environment |-> "development",
     variables |-> b, hasVariables |-> TRUE] :
       m \in ExecutionModes, d \in Delays, b \in RouteBags }
  \cup { [NoRunBody EXCEPT !.environment = "development", !.hasVariables = TRUE],
         [NoRunBody EXCEPT !.executionMode = "parallel", !.hasVariables = TRUE],
         [NoRunBody EXCEPT !.executionMode = "parallel",
                           !.environment = "development"] }

InitRoute ==
  /\ \E list \in RequestLists :
       db = [TwoWorkspaces EXCEPT !.requests = RequestRows(list)]
  /\ pool = <<>>
  /\ handlers = <<NewRunCall>>
  /\ NoRun

NextRoute ==
  \/ \E h \in DOMAIN handlers, token \in RouteTokens, param \in Params,
        body \in RunBodies : RunCallReceived(h, token, param, body)
  \/ \E h \in DOMAIN handlers : AuthMiddleware(h)
  \/ \E h \in DOMAIN handlers : RunRouteChecked(h)
  \/ \E h \in DOMAIN handlers : RunRouteLoaded(h)
  \/ \E h \in DOMAIN handlers : RunRouteAnswered(h)
  \/ \E h \in DOMAIN handlers : RunRouteFailed(h)
  \/ Next

SpecRoute == InitRoute /\ [][NextRoute]_vars

(***************************************************************************)
(* Properties.                                                             *)
(***************************************************************************)
Sequential == options.executionMode = "sequential"

InFlight == {i \in DOMAIN exec : exec[i].state = "inflight"}

\* C1: a failing request never stops or fails runCollection: the run never
\* rejects, a returned run has one result per template, and every template
\* has been executed.
C1_RunCoversEveryTemplate ==
  /\ pc # "rejected"
  /\ pc = "returned" =>
       /\ Len(output.results) = Len(requests)
       /\ \A i \in DOMAIN requests : exec[i].state = "fulfilled"

\* C2: in both modes results[i].requestId = templates[i].id for every i,
\* while the results are collected and in the returned output, whatever the
\* order in which the HTTP calls complete.
C2_ResultOrder ==
  /\ Len(results) <= Len(requests)
  /\ \A i \in DOMAIN results : results[i].requestId = requests[i].id
  /\ pc = "returned" =>
       /\ DOMAIN output.results = DOMAIN requests
       /\ \A i \in DOMAIN requests : output.results[i].requestId = requests[i].id

\* C2 witness: a returned parallel run whose second call completed before
\* its first.
C2_Witness ==
  /\ pc = "returned"
  /\ ~Sequential
  /\ Len(requests) >= 2
  /\ exec[1].outcome.kind # "none"
  /\ exec[2].outcome.kind # "none"
  /\ output.results[2].duration < output.results[1].duration

\* C3: executeRequest never throws or rejects, whichever step fails.
C3_ExecuteRequestNeverRejects ==
  \A i \in DOMAIN exec : exec[i].state # "rejected"

\* C4: for every run that returns, summary.total = number of results =
\* number of templates, and summary.completed + summary.failed = total.
C4_SummaryCounts ==
  pc = "returned" =>
    /\ output.summary.total = Len(output.results)
    /\ output.summary.total = Len(requests)
    /\ output.summary.completed + output.summary.failed = output.summary.total

\* C4 witness: a returned run with a completed and a failed result.
C4_Witness ==
  /\ pc = "returned"
  /\ \E i, j \in DOMAIN output.results :
       /\ output.results[i].status = "completed"
       /\ output.results[j].status = "failed"

\* C5: the returned status is "failed" exactly when summary.failed > 0,
\* that is when some result failed, "completed" otherwise, never "running".
C5_RunStatus ==
  pc = "returned" =>
    /\ output.status \in {"completed", "failed"}
    /\ output.status = "failed" <=> output.summary.failed > 0
    /\ output.summary.failed > 0
         <=> \E i \in DOMAIN output.results : output.results[i].status = "failed"

\* C5 witness: a returned run with status "failed" in which a request
\* completed.
C5_Witness ==
  /\ pc = "returned"
  /\ output.status = "failed"
  /\ output.summary.completed > 0

\* C6: in sequential mode at most one request is in flight, and request
\* j+1 is not started before the result of request j is recorded and the
\* delay after it has elapsed.
C6_SequentialOrder ==
  Sequential =>
    /\ Cardinality(InFlight) <= 1
    /\ \A j \in DOMAIN exec :
         (j > 1 /\ exec[j].state # "idle") =>
           /\ Len(results) >= j - 1
           /\ results[j - 1].requestId = requests[j - 1].id
           /\ exec[j].startTime >= exec[j - 1].startTime + results[j - 1].duration
                                   + options.delayBetweenRequests

\* C6 witness: the second request of a sequential run with a delay is in
\* flight.
C6_Witness ==
  /\ Sequential
  /\ options.delayBetweenRequests > 0
  /\ Len(requests) >= 2
  /\ exec[2].state = "inflight"

\* C7: in parallel mode every template is dispatched before the results
\* are awaited, none is held back while others are in flight, and
\* runCollection returns only when every dispatched execution has settled.
C7_ParallelJoin ==
  ~Sequential =>
    /\ pc # "called" => \A i \in DOMAIN exec : exec[i].state # "idle"
    /\ pc = "returned" => \A i \in DOMAIN exec : exec[i].state = "fulfilled"

\* C7 witness: the calls of all MaxRequests templates of a parallel run
\* are in flight at once.
C7_Witness ==
  /\ ~Sequential
  /\ pc = "par_await"
  /\ Len(requests) = MaxRequests
  /\ InFlight = DOMAIN requests

Occurs(sub, text) ==
  \E i \in 1..(Len(text) - Len(sub) + 1) : SubSeq(text, i, i + Len(sub) - 1) = sub

NoBrace(text) == \A i \in DOMAIN text : text[i] \notin {"{", "}"}

\* C9: every {{name}} whose name is a key of the bag is replaced by the
\* string representation of the key's value, whatever the value (0, false
\* and the empty string included): a text that is one such placeholder
\* between brace-free texts becomes those texts around the value's string.
C9_KeySubstituted ==
  callState = "returned" =>
    \A n \in DOMAIN argVars : \A i \in 1..Len(argStr) :
      LET e == i + Len(n) + 3
      IN ( /\ ~ToStringThrows(argVars[n])
           /\ e <= Len(argStr)
           /\ SubSeq(argStr, i, e) = Placeholder(n)
           /\ NoBrace(SubSeq(argStr, 1, i - 1))
           /\ NoBrace(SubSeq(argStr, e + 1, Len(argStr))) )
         => retVal = Returned(SubSeq(argStr, 1, i - 1) \o ToStringOf(argVars[n])
                              \o SubSeq(argStr, e + 1, Len(argStr)))

\* C10: a text in which no {{name}} of a key of the bag occurs (its
\* placeholders name identifiers the bag does not contain, or it has no
\* placeholder) is returned unchanged, without an exception.
C10_AbsentLeftLiteral ==
  callState = "returned" =>
    ( (\A n \in DOMAIN argVars : ~Occurs(Placeholder(n), argStr))
        => retVal = Returned(argStr) )

\* what became of the substituted JSON text r of a part
TextKind(r) ==
  IF r.threw THEN "threw" ELSE IF JSONValid(r.val) THEN "json" ELSE "malformed"

\* what becomes of a part of a template: it is absent, its substitution
\* throws, or its substituted text is JSON or is malformed
PartKind(part, variables) ==
  IF ~part.present THEN "absent"
  ELSE TextKind(replaceVariables(JSONStringify(part), variables))

\* of headers, body and params, in this order, the first that is not
\* absent or JSON is malformed
FirstFailureMalformed(h, d, p) ==
  \/ h = "malformed"
  \/ h \in {"absent", "json"} /\ d = "malformed"
  \/ h \in {"absent", "json"} /\ d \in {"absent", "json"} /\ p = "malformed"

\* the first step of executeRequest(request, variables) that fails is the
\* JSON.parse of the headers, of the body or of the params
MalformedJson(request, variables) ==
  /\ FirstFailureMalformed(PartKind(request.headers, variables),
                           PartKind(request.body, variables),
                           PartKind(request.params, variables))
  /\ ~replaceVariables(request.url, variables).threw

\* C11: a request whose headers, body or params are not JSON after
\* substitution ends with status "failed" and the parse error's message,
\* without a response and without an HTTP call; the run is not aborted, and
\* when it returns every request has been executed and has its result.
C11_MalformedJsonFailsRequestOnly ==
  \A i \in DOMAIN requests :
    MalformedJson(requests[i], options.variables) =>
      /\ exec[i].state # "idle" =>
           /\ exec[i].state = "fulfilled"
           /\ exec[i].result.status = "failed"
           /\ exec[i].result.hasError
           /\ exec[i].result.error = SyntaxErrorMessage
           /\ ~exec[i].result.hasResponse
           /\ \A k \in DOMAIN httpLog : httpLog[k].request # i
      /\ pc # "rejected"
      /\ pc = "returned" =>
           /\ \A j \in DOMAIN requests : exec[j].state = "fulfilled"
           /\ DOMAIN output.results = DOMAIN requests
           /\ output.results[i] = exec[i].result

\* C11 witness: a returned sequential run whose first request failed on
\* malformed JSON and whose second request got a response.
C11_Witness ==
  /\ pc = "returned"
  /\ Sequential
  /\ Len(requests) = 2
  /\ MalformedJson(requests[1], options.variables)
  /\ output.results[1].error = SyntaxErrorMessage
  /\ output.results[2].status = "completed"
  /\ Len(httpLog) = 1
  /\ httpLog[1].request = 2

\* C19: no step of a run changes a template (url, headers, body, params
\* included) or the options with their variable bag.
C19_InputsNeverMutated ==
  [][requests' = requests /\ options' = options]_vars

\* C19 witness: a returned run with a result whose resolved URL differs
\* from its template's URL, and a call whose headers differ from the
\* template's.
C19_Witness ==
  /\ pc = "returned"
  /\ \E i \in DOMAIN requests :
       /\ output.results[i].url # requests[i].url
       /\ \E k \in DOMAIN httpLog :
            /\ httpLog[k].request = i
            /\ requests[i].headers.present
            /\ httpLog[k].config.headers # JSONStringify(requests[i].headers)

\* the calls of executeRequest for request i, and the HTTP calls made for it
Invocations(i) == Cardinality({k \in DOMAIN callLog : callLog[k] = i})
HttpCalls(i) == Cardinality({k \in DOMAIN httpLog : httpLog[k].request = i})

\* C20: no template is attempted twice and none gets two HTTP calls; when
\* the run has settled every template has been attempted exactly once.
C20_AttemptedExactlyOnce ==
  \A i \in DOMAIN requests :
    /\ Invocations(i) <= 1
    /\ HttpCalls(i) <= 1
    /\ pc \in {"returned", "rejected"} => Invocations(i) = 1

\* the invocations of runScript made so far, those with a non-empty
\* script, and those that have settled
Called == {c \in DOMAIN invocation : invocation[c].pc # "idle"}
Scripted == {c \in Called : invocation[c].script # <<>>}
Settled == {c \in Called : invocation[c].pc \in {"returned", "rejected"}}

\* the range of a sequence
Range(f) == {f[i] : i \in DOMAIN f}

\* C12: an invocation with a non-empty script never rejects, and when it
\* returns an error the error is a non-empty message and the returned bag
\* is the caller's bag, with the contents it had at the call.
C12_ScriptFailuresReturned ==
  \A c \in Scripted :
    /\ invocation[c].pc # "rejected"
    /\ (invocation[c].pc = "returned" /\ invocation[c].settled.hasError) =>
         /\ invocation[c].settled.error # ""
         /\ invocation[c].settled.variables = invocation[c].variables
         /\ heap[invocation[c].variables] = invocation[c].before

\* a script of plain statements: it parses, throws nothing and ends within
\* the limits
RunsToCompletion(script) ==
  /\ script # <<>>
  /\ Range(script) \subseteq {StmtSet, StmtComment}

\* the bag a script of plain statements leaves behind
MutatedBag(script, bag) ==
  IF StmtSet \in Range(script) THEN (NameB :> StrV(<<"y">>)) @@ bag ELSE bag

\* C13: an invocation whose script runs to completion returns no error and
\* the bag as the script changed it.
C13_ScriptResultReturned ==
  \A c \in Settled :
    (RunsToCompletion(invocation[c].script) /\ invocation[c].pc = "returned") =>
      /\ ~invocation[c].settled.hasError
      /\ heap[invocation[c].settled.variables]
           = MutatedBag(invocation[c].script, invocation[c].before)

\* C14: when an invocation with a non-empty script has settled, whichever
\* way, its isolate is disposed.
C14_IsolateDisposed ==
  \A c \in Scripted \cap Settled : isolates[invocation[c].isolate].isDisposed

\* C15: no isolate holds a reference to a host bag; when an invocation has
\* settled the caller's bag has the contents it had at the call; the bag a
\* script returns without an error is not the caller's object.
C15_BagsCrossByCopy ==
  /\ \A k \in DOMAIN isolates : isolates[k].pm.kind # "reference"
  /\ \A c \in Settled : heap[invocation[c].variables] = invocation[c].before
  /\ \A c \in Scripted \cap Settled :
       (invocation[c].pc = "returned" /\ ~invocation[c].settled.hasError)
         => invocation[c].settled.variables # invocation[c].variables

\* a step of invocation c
ScriptStep(c) ==
  \/ \E fulfilled \in BOOLEAN : CreateContextSettled(c, fulfilled)
  \/ \E fulfilled \in BOOLEAN : JailSetSettled(c, fulfilled)
  \/ EvalSettled(c)

\* the invocations whose context.eval was called and has settled
Evaluated ==
  {c \in Scripted \cap Settled : isolates[invocation[c].isolate].pm.kind # "none"}

C17_EmptyScriptReturnsBag ==
  /\ \A c \in Called \ Scripted :
       /\ invocation[c].pc = "returned"
       /\ ~invocation[c].settled.hasError
       /\ invocation[c].settled.variables = invocation[c].variables
       /\ heap[invocation[c].variables] = invocation[c].before
       /\ invocation[c].isolate = 0
  /\ Len(isolates) = Cardinality(Scripted)

\* C17 witness: an invocation with an empty script has returned after one
\* with a script was called.
C17_Witness ==
  /\ 1 \in Scripted
  /\ 2 \in Called \ Scripted
  /\ invocation[2].pc = "returned"
  /\ Len(isolates) = 1

\* C18: an invocation with a script that runs to completion, made after
\* another invocation, returns no error; and two
\* invocations with the same script and the same bag contents return the
\* same error and the same bag contents.
C18_InvocationsIndependent ==
  /\ \A c \in Settled :
       ( /\ c > 1
         /\ RunsToCompletion(invocation[c].script)
         /\ invocation[c].pc = "returned" )
       => ~invocation[c].settled.hasError
  /\ \A c, d \in Settled :
       ( /\ invocation[c].pc = "returned"
         /\ invocation[d].pc = "returned"
         /\ invocation[c].script = invocation[d].script
         /\ invocation[c].before = invocation[d].before )
       => /\ invocation[c].settled.hasError = invocation[d].settled.hasError
          /\ invocation[c].settled.error = invocation[d].settled.error
          /\ heap[invocation[c].settled.variables] = heap[invocation[d].settled.variables]

\* a RequestResult is completed with a response snapshot and no error, or
\* failed with an error message and no response snapshot
ResultWellFormed(r) ==
  /\ r.status \in {"completed", "failed"}
  /\ r.status = "completed" =>
       /\ r.hasResponse
       /\ r.response.status \in StatusCodes
       /\ r.response.statusText # ""
       /\ r.response.data # ""
       /\ r.response.headers # ""
       /\ ~r.hasError
  /\ r.status = "failed" =>
       /\ r.hasError
       /\ r.error # ""
       /\ ~r.hasResponse

\* C21: every result that executeRequest has returned, that runCollection
\* has recorded or that it has returned is completed with the response
\* snapshot and no error, or failed with an error message and no snapshot.
C21_ResultShape ==
  /\ \A i \in DOMAIN exec :
       exec[i].state = "fulfilled" => ResultWellFormed(exec[i].result)
  /\ \A i \in DOMAIN results : ResultWellFormed(results[i])
  /\ \A i \in DOMAIN output.results : ResultWellFormed(output.results[i])

\* C21 witness: a returned run with a result completed by a 404 response
\* and a result failed by a transport error.
C21_Witness ==
  /\ pc = "returned"
  /\ \E i, j \in DOMAIN output.results :
       /\ output.results[i].status = "completed"
       /\ output.results[i].response.status = 404
       /\ output.results[j].status = "failed"
       /\ output.results[j].error = "Network Error"

\* the run pauses: sequential mode with a delay
Pausing == Sequential /\ options.delayBetweenRequests > 0

\* C22: a sequential run with a delay has set one timer after each result
\* it recorded, in order, and returns only after the timer set after its
\* last request has fired: N pauses for N templates.  Any other run sets no
\* timer and never waits for one.
C22_PauseAfterEveryRequest ==
  /\ Pausing =>
       /\ timerLog = [k \in 1..Len(results) |-> k]
       /\ pc = "seq_delay" => timerLog[Len(timerLog)] = idx
       /\ pc = "returned" =>
            /\ Len(timerLog) = Len(requests)
            /\ Len(requests) > 0 => now >= timerDue
            /\ output.summary.totalDuration
                 >= Len(requests) * options.delayBetweenRequests
  /\ ~Pausing => (timerLog = <<>> /\ pc # "seq_delay")

\* C22 witness: a sequential run of MaxRequests requests with a delay has
\* returned.
C22_Witness ==
  /\ Pausing
  /\ pc = "returned"
  /\ Len(requests) = MaxRequests
  /\ Len(timerLog) = MaxRequests

\* C23: a returned sequential run of N requests with delay d > 0 has
\* totalDuration >= the sum of its results' durations + (N - 1) * d, and
\* totalDuration is the time from the start of the run to its return.
C23_TotalDuration ==
  (Pausing /\ pc = "returned") =>
    /\ output.summary.totalDuration
         >= SumDurations(output.results)
            + (Len(requests) - 1) * options.delayBetweenRequests
    /\ output.summary.totalDuration = now - runStartTime

\* C23 witness: a returned sequential run of two requests with a delay in
\* which an HTTP call took time.
C23_Witness ==
  /\ Pausing
  /\ pc = "returned"
  /\ Len(requests) = 2
  /\ SumDurations(output.results) > 0
  /\ output.summary.totalDuration > SumDurations(output.results)

\* request i has been resolved: executeRequest has built its result
Resolved(i) == exec[i].state \in {"inflight", "fulfilled"}

\* C24: no step of a run calls runScript or creates an isolate, the bag
\* stays options.variables, and two templates with the same url, headers,
\* body and params are resolved to the same url, headers, body and params,
\* whatever happened between them.
C24_SameBagForEveryTemplate ==
  /\ invocation = <<>>
  /\ isolates = <<>>
  /\ heap = <<>>
  /\ \A i, j \in DOMAIN requests :
       (Resolved(i) /\ Resolved(j) /\ requests[i].url = requests[j].url) =>
         exec[i].result.url = exec[j].result.url
  /\ \A k, l \in DOMAIN httpLog :
       LET i == httpLog[k].request
           j == httpLog[l].request
       IN ( /\ requests[i].url = requests[j].url
            /\ requests[i].headers = requests[j].headers
            /\ requests[i].body = requests[j].body
            /\ requests[i].params = requests[j].params )
          => httpLog[k].config = httpLog[l].config

\* C24 witness: in a sequential run the second of two requests with the
\* same templated url is in flight after the first failed.
C24_Witness ==
  /\ Sequential
  /\ Len(requests) = 2
  /\ requests[1].url = requests[2].url
  /\ requests[1].url # exec[2].result.url
  /\ exec[1].state = "fulfilled"
  /\ exec[1].result.status = "failed"
  /\ exec[2].state = "inflight"

KeysNamedIn(text, variables) ==
  { k \in DOMAIN variables : Occurs(Placeholder(k), text) }

\* C27: interpolation is a single pass.  Where the text is a brace-free
\* prefix, the placeholder of a key whose value holds a placeholder, and a
\* rest, the result is the prefix, the value as it stands, and the
\* interpolated rest: the inserted value is not scanned again, also when
\* the name it holds is a key of the bag.  Every call ends, with bags
\* whose values name each other too.
C27_SinglePass ==
  /\ callState = "called" => ENABLED CallReplaceVariables
  /\ callState = "returned" =>
       \A n \in DOMAIN argVars, i \in 0..Len(argStr) :
         LET pre == SubSeq(argStr, 1, i)
             e == i + Len(Placeholder(n))
         IN ( /\ HoldsPlaceholder(argVars[n])
              /\ NoBrace(pre)
              /\ e <= Len(argStr)
              /\ SubSeq(argStr, i + 1, e) = Placeholder(n) )
            => retVal = Prepend(pre \o argVars[n].s,
                                replaceVariables(SubSeq(argStr, e + 1, Len(argStr)), argVars))

\* C27 witness: the values of a and b name each other, the text names
\* both, and the call returned the two values as they stand.
C27_Witness ==
  /\ callState = "returned"
  /\ DOMAIN argVars = {NameA, NameB}
  /\ \A n \in DOMAIN argVars :
       /\ HoldsPlaceholder(argVars[n])
       /\ KeysNamedIn(argVars[n].s, argVars) # {}
  /\ argStr = Placeholder(NameA) \o Placeholder(NameB)
  /\ retVal = Returned(argVars[NameA].s \o argVars[NameB].s)

Done(h) == handlers[h].pc = "done"

\* C28: no client is in the pool with a transaction that was begun and
\* neither committed nor rolled back.
C28_NoOpenTransactionInPool ==
  \A c \in DOMAIN pool : ~pool[c].busy => pool[c].txn = "none"

\* the registrations of an e-mail that have been answered with the code
Answered(email, code) ==
  { h \in DOMAIN handlers :
      Done(h) /\ handlers[h].body.email = email /\ handlers[h].status = code }

\* C29: however the registrations interleave, an e-mail has at most one
\* user row and a user at most one workspace row.  Once every registration
\* has been answered, the rows of an e-mail are those of its one 201
\* response; every other registration of that e-mail was answered 409,
\* unless a query of its own failed (500), and nothing is left pending.
C29_OneRegistrationPerEmail ==
  /\ \A e \in Emails :
       /\ Cardinality({u \in db.users : u.email = e}) <= 1
       /\ Cardinality({w \in db.workspaces :
                         \E u \in db.users : u.email = e /\ w.owner_id = u.id}) <= 1
  /\ (\A h \in DOMAIN handlers : Done(h)) =>
       /\ \A c \in DOMAIN pool : pool[c].users = {} /\ pool[c].workspaces = {}
       /\ \A w \in db.workspaces : \E u \in db.users : w.owner_id = u.id
       /\ \A e \in Emails :
            /\ {u.id : u \in {v \in db.users : v.email = e}}
                 = {handlers[h].userId : h \in Answered(e, 201)}
            /\ \A h \in DOMAIN handlers :
                 handlers[h].body.email = e /\ Answered(e, 201) \notin {{}, {h}}
                   => \/ handlers[h].status = 409
                      \/ handlers[h].status = 500 /\ handlers[h].err = PgConnectionFailure

\* C29 witness: two registrations of one e-mail both pass the SELECT; one
\* is answered 201 and the other, stopped by the UNIQUE constraint, 409.
C29_Witness ==
  \E g, h \in DOMAIN handlers :
    /\ Done(g) /\ Done(h)
    /\ handlers[g].body.email = handlers[h].body.email
    /\ handlers[g].status = 201
    /\ handlers[h].status = 409
    /\ handlers[h].err = PgUniqueViolation
    /\ Cardinality(db.users) = 1
    /\ Cardinality(db.workspaces) = 1

\* the rows of database d that belong to workspace ws: its collections and
\* variables, and the requests of its collections
OwnRows(d, ws) ==
  [collections |-> {r \in d.collections : r.workspace_id = ws},
   variables |-> {r \in d.variables : r.workspace_id = ws},
   requests |-> {r \in d.requests :
                   \E c \in d.collections :
                     c.id = r.collection_id /\ c.workspace_id = ws}]

\* the rows of database d that belong to another workspace than ws
ForeignRows(d, ws) ==
  [t \in {"collections", "variables", "requests"} |-> d[t] \ OwnRows(d, ws)[t]]

\* the table whose :id the call of h names (for POST /requests, the table
\* of the body's collection_id)
TableOf(h) ==
  IF handlers[h].op \in {"GET /requests/:id", "PUT /requests/:id", "DELETE /requests/:id"}
  THEN "requests"
  ELSE IF handlers[h].op \in {"PUT /variables/:id", "DELETE /variables/:id"}
  THEN "variables"
  ELSE "collections"

\* the row the call of h names exists
TargetExists(h) ==
  \E r \in db[TableOf(h)] : r.id = ParamIds[handlers[h].param]

\* the row the call of h names exists and belongs to the caller's workspace
TargetOwned(h) ==
  \E r \in OwnRows(db, handlers[h].user.workspace_id)[TableOf(h)] :
    r.id = ParamIds[handlers[h].param]

ByIdRoutes == ReadRoutes \cup PutRoutes \cup DeleteRoutes

\* how a call is refused: 400 for a PUT whose body names no field, else 404
Refusal(h) ==
  IF handlers[h].op \in PutRoutes /\ ~handlers[h].fields THEN 400 ELSE 404

\* the step in which the handler of h runs its code behind authMiddleware
RouteStep(h) ==
  /\ handlers[h].pc \in {"route", "second"}
  /\ handlers'[h] # handlers[h]

\* no step of a call changes a row of another workspace than the caller's;
\* a request row is only inserted into a collection of the caller's
\* workspace; a call on an :id goes on or is answered 200 only when its
\* target is a row of the caller's workspace
OnlyOwnRows(h) ==
  /\ ForeignRows(db', handlers[h].user.workspace_id)
       = ForeignRows(db, handlers[h].user.workspace_id)
  /\ \A r \in db'.requests \ db.requests :
       \/ \E q \in db.requests : q.id = r.id
       \/ \E c \in db.collections :
            c.id = r.collection_id /\ c.workspace_id = handlers[h].user.workspace_id
  /\ (handlers[h].pc = "route" /\ handlers[h].op \in ByIdRoutes
      /\ (handlers'[h].status = 200 \/ handlers'[h].pc = "second"))
       => TargetOwned(h)

\* a call whose target is no row of the caller's workspace is answered
\* with the code and changes nothing
RefusedWith(h, code) ==
  (handlers[h].pc = "route" /\ handlers[h].op \in ByIdRoutes /\ ~TargetOwned(h))
    => /\ handlers'[h].pc = "done"
       /\ handlers'[h].status = code
       /\ db' = db

RunAllowed(h) ==
  /\ handlers[h].token.kind = "valid"
  /\ \E u \in db.users : u.id = handlers[h].token.id
  /\ handlers[h].body.executionMode # ""
  /\ handlers[h].body.environment # ""
  /\ handlers[h].body.hasVariables
  /\ \E c \in db.collections, w \in db.workspaces :
       /\ c.id = ParamIds[handlers[h].param]
       /\ c.workspace_id = w.id
       /\ w.owner_id = handlers[h].token.id

\* C25: runCollection is called only for an authenticated caller, a body
\* with executionMode, environment and variables, and a collection of the
\* caller's workspace, with that collection's templates in the order of
\* their creation and the body's options.  A call answered 400, 401 or 404
\* has executed no request.  A run that returned is answered 200, and the
\* body of a 200 answer is the RunOutput as returned, whatever its status.
C25_RunOnlyWhenAllowed ==
  \A h \in DOMAIN handlers :
    /\ pc # "none" =>
         /\ RunAllowed(h)
         /\ handlers[h].pc \in {"running", "done"}
         /\ options = RunOptionsOf(handlers[h].body)
         /\ Len(requests) = Cardinality({r \in db.requests :
                                           r.collection_id = ParamIds[handlers[h].param]})
         /\ \A i \in DOMAIN requests :
              \E r \in db.requests :
                /\ r.collection_id = ParamIds[handlers[h].param]
                /\ r.created_at = i
                /\ requests[i] = RequestColumns(r)
    /\ handlers[h].status \in {400, 401, 404} =>
         /\ pc = "none"
         /\ httpLog = <<>>
         /\ callLog = <<>>
    /\ (Done(h) /\ pc = "returned") => handlers[h].status = 200
    /\ handlers[h].status = 200 =>
         /\ pc = "returned"
         /\ handlers[h].resBody = output

\* C25 witness: a run of MaxRequests templates whose status is "failed" has
\* been answered 200 with the RunOutput.
C25_Witness ==
  \E h \in DOMAIN handlers :
    /\ handlers[h].status = 200
    /\ Len(requests) = MaxRequests
    /\ handlers[h].resBody.status = "failed"
    /\ Len(handlers[h].resBody.results) = MaxRequests
    /\ httpLog # <<>>

====
